---- MODULE Spec2Model ----
(***************************************************************************)
(* Model of the IRC protocol engine of eternal (src/eternal/libirc.py):    *)
(* the line framer, the message parser, the command dispatcher, the batch  *)
(* buffer and the handshake driver of IRCClient.                           *)
(*                                                                         *)
(* Python str and bytes values are TLA+ strings (sequences of characters); *)
(* the received bytes are ASCII, for which bytes.decode is the character   *)
(* by character conversion.  Python lists are sequences, dicts are         *)
(* functions on their key set.  Message.time is not modelled.  The         *)
(* character of code 96 cannot be written in a string of the module and    *)
(* is absent from the character tables.  Every                             *)
(* message carries the ghost field origin: the 1-based number of the       *)
(* input line (in the received byte stream) it was parsed from.            *)
(***************************************************************************)
EXTENDS Integers, Sequences, FiniteSets, TLC

(***************************************************************************)
(* Bounds of the model.                                                    *)
(***************************************************************************)
MaxFramingPushes == 3
MaxHandshakePushes == 4
MaxBatchPushes == 4
MaxChannelPushes == 4
MaxClosedPushes == 3
MaxPrefixPushes == 4
MaxTypingPushes == 4
MaxMessagePushes == 3
MaxClockPushes == 2
MaxParsePushes == 1
MaxSourceLen == 3
MaxModePushes == 3
MaxModestringLen == 3
MaxPresencePushes == 3
MaxNamesPushes == 5
MaxStatusPushes == 3
MaxStatusTime == 2
MaxTagPushes == 1
MaxTagValueLen == 3
MaxTime == 5

(***************************************************************************)
(* Python sequence and string primitives.                                  *)
(***************************************************************************)
Min(a, b) == IF a < b THEN a ELSE b
Max(a, b) == IF a < b THEN b ELSE a

\* s[i:j] for 0-based i, j, negative values counting from the end
Slice(s, i, j) ==
    LET n == Len(s)
        a == IF i < 0 THEN Max(i + n, 0) ELSE Min(i, n)
        b == IF j < 0 THEN Max(j + n, 0) ELSE Min(j, n)
    IN  IF a >= b THEN SubSeq(s, 1, 0) ELSE SubSeq(s, a + 1, b)

\* s[i:]
SliceFrom(s, i) == Slice(s, i, Len(s))

\* s[:j]
SliceTo(s, j) == Slice(s, 0, j)

\* s.startswith(p)
StartsWith(s, p) == Len(s) >= Len(p) /\ SubSeq(s, 1, Len(p)) = p

\* s.endswith(p)
EndsWith(s, p) == Len(s) >= Len(p) /\ SubSeq(s, Len(s) - Len(p) + 1, Len(s)) = p

\* the 0-based positions at which sub occurs in s
Occurrences(s, sub) ==
    {i \in 0..(Len(s) - Len(sub)) : SubSeq(s, i + 1, i + Len(sub)) = sub}

\* s.find(sub): lowest index of sub in s, or -1
Find(s, sub) ==
    LET occ == Occurrences(s, sub)
    IN  IF occ = {} THEN -1 ELSE CHOOSE i \in occ : \A j \in occ : i <= j

\* s.rfind(sub): highest index of sub in s, or -1
RFind(s, sub) ==
    LET occ == Occurrences(s, sub)
    IN  IF occ = {} THEN -1 ELSE CHOOSE i \in occ : \A j \in occ : i >= j

\* sub in s
Contains(s, sub) == Occurrences(s, sub) /= {}

\* s.split(sep) for a non-empty separator: a list of at least one string
RECURSIVE Split(_, _)
Split(s, sep) ==
    LET i == Find(s, sep)
    IN  IF i = -1 THEN <<s>>
        ELSE <<SliceTo(s, i)>> \o Split(SliceFrom(s, i + Len(sep)), sep)

\* s.split(sep, maxsplit=1)
Split1(s, sep) ==
    LET i == Find(s, sep)
    IN  IF i = -1 THEN <<s>>
        ELSE <<SliceTo(s, i), SliceFrom(s, i + Len(sep))>>

\* sep.join(parts)
RECURSIVE Join(_, _)
Join(parts, sep) ==
    IF parts = <<>> THEN ""
    ELSE IF Len(parts) = 1 THEN parts[1]
    ELSE parts[1] \o sep \o Join(Tail(parts), sep)

\* s.replace(old, new) for a non-empty old
RECURSIVE Replace(_, _, _)
Replace(s, old, new) ==
    LET i == Find(s, old)
    IN  IF i = -1 THEN s
        ELSE SliceTo(s, i) \o new \o Replace(SliceFrom(s, i + Len(old)), old, new)

LowerLetters == "abcdefghijklmnopqrstuvwxyz"
UpperLetters == "ABCDEFGHIJKLMNOPQRSTUVWXYZ"

\* s.upper()
RECURSIVE Upper(_)
Upper(s) ==
    IF s = "" THEN ""
    ELSE LET i == Find(LowerLetters, SubSeq(s, 1, 1))
         IN  (IF i = -1 THEN SubSeq(s, 1, 1) ELSE SubSeq(UpperLetters, i + 1, i + 1))
             \o Upper(Tail(s))

\* s.lower()
RECURSIVE Lower(_)
Lower(s) ==
    IF s = "" THEN ""
    ELSE LET i == Find(UpperLetters, SubSeq(s, 1, 1))
         IN  (IF i = -1 THEN SubSeq(s, 1, 1) ELSE SubSeq(LowerLetters, i + 1, i + 1))
             \o Lower(Tail(s))

\* d.update(e) on dicts
Update(d, e) == [k \in DOMAIN d \cup DOMAIN e |-> IF k \in DOMAIN e THEN e[k] ELSE d[k]]

\* a pop that removes nothing
Without_keeps_key(d, k) == d

\* the dict d without key k
Without(d, k) == [j \in DOMAIN d \ {k} |-> d[j]]

EmptyDict == [k \in {} |-> TRUE]

(***************************************************************************)
(* Insertion-ordered dicts whose iteration order matters are sequences of  *)
(* <<key, value>> pairs with distinct keys.                                *)
(***************************************************************************)
ODKeys(od) == [i \in 1..Len(od) |-> od[i][1]]
ODValues(od) == [i \in 1..Len(od) |-> od[i][2]]
ODHas(od, k) == \E i \in 1..Len(od) : od[i][1] = k
ODGet(od, k) == od[CHOOSE i \in 1..Len(od) : od[i][1] = k][2]

\* od[k] = v: a present key keeps its position, a new key goes last
ODSet(od, k, v) ==
    IF ODHas(od, k)
    THEN [i \in 1..Len(od) |-> IF od[i][1] = k THEN <<k, v>> ELSE od[i]]
    ELSE Append(od, <<k, v>>)

\* del od[k]
ODDel(od, k) == SelectSeq(od, LAMBDA p : p[1] /= k)

(***************************************************************************)
(* Message parser.                                                         *)
(***************************************************************************)
Source(source, nick, user, host) ==
    [source |-> source, nick |-> nick, user |-> user, host |-> host]

parse_message_source(source) ==
    IF source = "" THEN Source("", "", "", "")
    ELSE LET i_ex == Find(source, "!")
             i_at == Find(source, "@")
         IN  IF i_ex = -1 \/ i_at = -1
             THEN Source(source, "", "", SliceFrom(source, i_at + 1))
             ELSE Source(source, SliceTo(source, i_ex),
                         Slice(source, i_ex + 1, i_at), SliceFrom(source, i_at + 1))

parse_message_params(params) ==
    IF params = "" THEN <<>>
    ELSE IF StartsWith(params, ":") THEN <<SliceFrom(params, 1)>>
    ELSE LET index == Find(params, " :")
         IN  IF index = -1 THEN Split(params, " ")
             ELSE Append(Split(SliceTo(params, index), " "), SliceFrom(params, index + 2))

\* the (escaped, actual) items of TAG_VALUE_ESCAPE in their order
TAG_VALUE_ESCAPE ==
    << <<"\\:", ";">>, <<"\\s", " ">>, <<"\\\\", "\\">>, <<"\\r", "\r">>, <<"\\n", "\n">> >>

RECURSIVE UnescapeTagValue(_, _)
UnescapeTagValue(value, i) ==
    IF i > Len(TAG_VALUE_ESCAPE) THEN value
    ELSE UnescapeTagValue(Replace(value, TAG_VALUE_ESCAPE[i][1], TAG_VALUE_ESCAPE[i][2]), i + 1)

\* the (key, value) pair of one tag of parse_message_tags
ParseTag(tag) ==
    IF Contains(tag, "=")
    THEN LET kv == Split1(tag, "=")
             value == IF EndsWith(kv[2], "\\") THEN SliceTo(kv[2], -1) ELSE kv[2]
         IN  <<kv[1], UnescapeTagValue(value, 1)>>
    ELSE <<tag, "">>

RECURSIVE DictOfPairs(_)
DictOfPairs(pairs) ==
    IF pairs = <<>> THEN EmptyDict
    ELSE LET p == pairs[Len(pairs)]
             d == DictOfPairs(SubSeq(pairs, 1, Len(pairs) - 1))
         IN  [k \in DOMAIN d \cup {p[1]} |-> IF k = p[1] THEN p[2] ELSE d[k]]

parse_message_tags(tags) ==
    LET parts == Split(tags, ";")
    IN  DictOfPairs([i \in 1..Len(parts) |-> ParseTag(parts[i])])

\* a Message; type is the name of its class (Message or an event class)
Message(tags, source, command, params) ==
    [type |-> "Message", tags |-> tags, source |-> source, command |-> command,
     params |-> params]

parse_message(data) ==
    LET s0 == data
        hasTags == StartsWith(s0, "@")
        tags == IF hasTags THEN parse_message_tags(Slice(s0, 1, Find(s0, " ")))
                ELSE EmptyDict
        s1 == IF hasTags THEN SliceFrom(s0, Find(s0, " ") + 1) ELSE s0
        hasSource == StartsWith(s1, ":")
        source == IF hasSource THEN Slice(s1, 1, Find(s1, " ")) ELSE ""
        s2 == IF hasSource THEN SliceFrom(s1, Find(s1, " ") + 1) ELSE s1
        space_index == Find(s2, " ")
    IN  IF space_index = -1
        THEN Message(tags, parse_message_source(source), Upper(s2), <<>>)
        ELSE Message(tags, parse_message_source(source), Upper(SliceTo(s2, space_index)),
                     parse_message_params(SliceFrom(s2, space_index + 1)))

\* one capability of CAP LS: key and value (TRUE when there is no "=")
ParseCapability(capability) ==
    IF Contains(capability, "=")
    THEN LET kv == Split1(capability, "=") IN <<kv[1], kv[2]>>
    ELSE <<capability, TRUE>>

parse_capabilities_ls(cap_params) ==
    LET capabilities == Split(cap_params[Len(cap_params)], " ")
    IN  DictOfPairs([i \in 1..Len(capabilities) |-> ParseCapability(capabilities[i])])

\* the characters of codes 32 to 95 and of codes 97 to 126, in the order of
\* their codes
PrintableLow ==
    " !\"#$%&'()*+,-./0123456789:;<=>?@ABCDEFGHIJKLMNOPQRSTUVWXYZ[\\]^_"
PrintableHigh == "abcdefghijklmnopqrstuvwxyz{|}~"

\* ord(ch) of such a character
Ord(ch) ==
    IF Contains(PrintableLow, ch) THEN 32 + Find(PrintableLow, ch)
    ELSE 97 + Find(PrintableHigh, ch)

\* str.encode() of a string of such characters: the list of its bytes
Encode(s) == [i \in 1..Len(s) |-> Ord(SubSeq(s, i, i))]

B64Alphabet == "ABCDEFGHIJKLMNOPQRSTUVWXYZabcdefghijklmnopqrstuvwxyz0123456789+/"

B64Char(n) == SubSeq(B64Alphabet, n + 1, n + 1)

\* base64.b64encode(bytes).decode()
RECURSIVE b64encode(_)
b64encode(bytes) ==
    IF bytes = <<>> THEN ""
    ELSE IF Len(bytes) = 1
    THEN B64Char(bytes[1] \div 4) \o B64Char((bytes[1] % 4) * 16) \o "=="
    ELSE IF Len(bytes) = 2
    THEN B64Char(bytes[1] \div 4) \o B64Char((bytes[1] % 4) * 16 + bytes[2] \div 16)
         \o B64Char((bytes[2] % 16) * 4) \o "="
    ELSE B64Char(bytes[1] \div 4) \o B64Char((bytes[1] % 4) * 16 + bytes[2] \div 16)
         \o B64Char((bytes[2] % 16) * 4 + bytes[3] \div 64) \o B64Char(bytes[3] % 64)
         \o b64encode(SubSeq(bytes, 4, Len(bytes)))

\* base64 of user NUL user NUL password
get_sasl_plain_payload(user, password) ==
    b64encode(Encode(user) \o <<0>> \o Encode(user) \o <<0>> \o Encode(password))

\* the (key, value) pair of one ISUPPORT token, the key with its "-" if any
ParseSupportedToken(param) ==
    IF Contains(param, "=")
    THEN LET kv == Split1(param, "=") IN <<kv[1], kv[2]>>
    ELSE <<param, "">>

\* parse_supported: the dict of the tokens to set and the set of keys to unset
parse_supported(params) ==
    LET toks == Slice(params, 1, -1)
        kvs == [i \in 1..Len(toks) |-> ParseSupportedToken(toks[i])]
    IN  [supported |-> DictOfPairs(SelectSeq(kvs, LAMBDA kv : ~StartsWith(kv[1], "-"))),
         not_supported |-> {SliceFrom(kvs[i][1], 1) :
                               i \in {j \in 1..Len(kvs) : StartsWith(kvs[j][1], "-")}}]

\* parse_member_prefixes raises ValueError unless split(")") gives two parts
parse_member_prefixes_raises(prefixes) ==
    prefixes /= "" /\ Len(Split(prefixes, ")")) /= 2

RECURSIVE ODOfPairs(_)
ODOfPairs(pairs) ==
    IF pairs = <<>> THEN <<>>
    ELSE ODSet(ODOfPairs(SubSeq(pairs, 1, Len(pairs) - 1)),
               pairs[Len(pairs)][1], pairs[Len(pairs)][2])

\* the ordered dict mode letter -> prefix symbol of PREFIX=(letters)symbols
parse_member_prefixes(prefixes) ==
    IF prefixes = "" THEN <<>>
    ELSE LET parts == Split(prefixes, ")")
             letters == SliceFrom(parts[1], 1)
             symbols == parts[2]
         IN  ODOfPairs([i \in 1..Min(Len(letters), Len(symbols)) |->
                          <<SubSeq(letters, i, i), SubSeq(symbols, i, i)>>])

get_highest_member_prefix(server_prefixes, member_prefixes) ==
    LET hits == {i \in 1..Len(server_prefixes) :
                    Contains(member_prefixes, server_prefixes[i][2])}
    IN  IF hits = {} THEN ""
        ELSE server_prefixes[CHOOSE i \in hits : \A j \in hits : i <= j][2]

mode_types == "ABCDEFGHIJKLM"

\* the number of "," before position i (1-based) of chanmodes
CommasBefore(chanmodes, i) ==
    Cardinality({j \in 1..(i - 1) : SubSeq(chanmodes, j, j) = ","})

\* parse_chanmodes raises IndexError on a mode letter after 13 or more commas
parse_chanmodes_raises(chanmodes) ==
    \E i \in 1..Len(chanmodes) :
        SubSeq(chanmodes, i, i) /= "," /\ CommasBefore(chanmodes, i) >= Len(mode_types)

parse_chanmodes(chanmodes) ==
    DictOfPairs(SelectSeq(
        [i \in 1..Len(chanmodes) |->
            <<SubSeq(chanmodes, i, i),
              SubSeq(mode_types, CommasBefore(chanmodes, i) + 1, CommasBefore(chanmodes, i) + 1)>>],
        LAMBDA p : p[1] /= ","))

(***************************************************************************)
(* The client.  A client value c is the record of the fields of an         *)
(* IRCClient.  User objects are shared between the users dict and the      *)
(* members of channels: they live in c.heap and are referred to by their   *)
(* index.  c.outbox is the list of the payloads handed to                  *)
(* _server_connection.send_bytes, c.raised tells that an exception has     *)
(* propagated out of the running call, c.now is the value of               *)
(* get_utc_now().  Ghost fields: c.nlines counts the input lines consumed, *)
(* c.parsed lists the lines handed to parse_message, c.held is the set of  *)
(* the origins of the messages that have sat in _tmp_batches or _tmp_motd. *)
(***************************************************************************)
None == "None"

\* the None of an optional timestamp
NoTime == -1

User(source) ==
    [source |-> source, modes |-> "", is_away |-> FALSE, last_message_at |-> NoTime]

Member(user) ==
    [user |-> user, prefixes |-> "", highest_prefix |-> "",
     is_typing |-> FALSE, last_typing_update_at |-> NoTime]

Channel(name) == [name |-> name, modes |-> "", topic |-> "", members |-> <<>>]

\* IRCClient.__init__
NewClient(config) ==
    [config |-> config,
     server_connection |-> None,
     inbox |-> <<>>,
     outbox |-> <<>>,
     capabilities |-> EmptyDict,
     supported |-> EmptyDict,
     member_prefixes |-> <<>>,
     channel_modes |-> EmptyDict,
     name |-> config.server,
     nick |-> config.nick,
     channels |-> <<>>,
     users |-> EmptyDict,
     heap |-> <<>>,
     recv_buffer |-> "",
     tmp_channel_nicks |-> EmptyDict,
     tmp_batches |-> EmptyDict,
     tmp_motd |-> <<>>,
     handshake_steps |-> <<>>,
     raised |-> FALSE,
     now |-> 0,
     nlines |-> 0,
     parsed |-> <<>>,
     held |-> {}]

Raise(c) == [c EXCEPT !.raised = TRUE]

\* the result of a handler: the client after it and the events returned
Ret(c, rv) == [c |-> c, rv |-> rv]

\* an event built from a message: the event class, its own fields, **msg.__dict__
Event(type, fields, msg) == [type |-> type] @@ fields @@ msg

\* UserDefaultDict.__missing__ through self.users[key]: the client in which
\* users has the key
users_getitem(c, key) ==
    IF key \in DOMAIN c.users THEN c
    ELSE [c EXCEPT !.heap = Append(c.heap, User(Source("", key, "", ""))),
                   !.users = Update(c.users, [k \in {key} |-> Len(c.heap) + 1])]

\* to_bytes without the colon before the last parameter
to_bytes_without_colon(msg) ==
    IF msg.params = <<>> THEN msg.command
    ELSE msg.command \o " " \o Join(msg.params, " ")

\* Message.to_bytes
to_bytes(msg) ==
    IF msg.params = <<>> THEN msg.command
    ELSE msg.command \o " " \o
         Join([msg.params EXCEPT ![Len(msg.params)] = ":" \o msg.params[Len(msg.params)]], " ")

ClientMessage(command, params) == Message(EmptyDict, Source("", "", "", ""), command, params)

\* IRCClient.send_to_server; calling send_bytes on None raises
send_to_server(c, line) ==
    IF c.server_connection = None THEN Raise(c)
    ELSE [c EXCEPT !.outbox = Append(c.outbox, line \o "\r\n")]

\* IRCClient.send_message_to_server
send_message_to_server(c, msg) ==
    IF c.server_connection = None THEN Raise(c)
    ELSE [c EXCEPT !.outbox = Append(c.outbox, to_bytes(msg) \o "\r\n")]

\* send_to_server for each line of a list, in order
RECURSIVE SendLines(_, _)
SendLines(c, lines) ==
    IF lines = <<>> \/ c.raised THEN c
    ELSE SendLines(send_to_server(c, Head(lines)), Tail(lines))

(***************************************************************************)
(* Handshake driver.  A handshake step is the pair of the names of its     *)
(* predicate and of its action.                                            *)
(***************************************************************************)
HandshakeStep(fence, step) == [fence |-> fence, step |-> step]

\* is_capabilities_received without its test of the number of parameters
is_capabilities_received_any_length(msg) ==
    msg.command = "CAP" /\ Len(msg.params) >= 3 /\ msg.params[2] = "LS"

is_capabilities_received(msg) ==
    msg.command = "CAP" /\ Len(msg.params) = 3 /\ msg.params[2] = "LS"

is_authenticate_plus_received(msg) ==
    msg.command = "AUTHENTICATE" /\ Len(msg.params) = 1 /\ msg.params[1] = "+"

is_903_received(msg) == msg.command = "903"

is_001_received(msg) == msg.command = "001"

\* step_fence(msg)
StepFence(fence, msg) ==
    CASE fence = "is_capabilities_received" -> is_capabilities_received(msg)
      [] fence = "is_authenticate_plus_received" -> is_authenticate_plus_received(msg)
      [] fence = "is_903_received" -> is_903_received(msg)
      [] fence = "is_001_received" -> is_001_received(msg)

\* whether self._config.get("sasl") is truthy; config.sasl is <<>> for an
\* absent entry and the one-element list of the sasl dict otherwise
SaslConfigured(config) == config.sasl /= <<>>

_hanshake_start(c) ==
    LET next_step == IF SaslConfigured(c.config) /\ "sasl" \in DOMAIN c.capabilities
                     THEN "_handshake_authenticate_step_1"
                     ELSE "_handshake_negociate_capabilities"
        c1 == [c EXCEPT !.handshake_steps =
                  Append(c.handshake_steps, HandshakeStep("is_capabilities_received", next_step))]
    IN  SendLines(c1, <<"CAP LS 302",
                        "NICK " \o c.config.nick,
                        "USER " \o c.config.user \o " 0 * :" \o c.config.real_name>>)

_handshake_authenticate_step_1(c) ==
    LET c1 == [c EXCEPT !.handshake_steps =
                  Append(c.handshake_steps, HandshakeStep("is_authenticate_plus_received",
                                                          "_handshake_authenticate_step_2"))]
    IN  SendLines(c1, <<"CAP REQ :sasl", "AUTHENTICATE PLAIN">>)

_handshake_authenticate_step_2(c) ==
    LET c1 == [c EXCEPT !.handshake_steps =
                  Append(c.handshake_steps, HandshakeStep("is_903_received",
                                                          "_handshake_negociate_capabilities"))]
    IN  IF c.config.sasl = <<>> THEN Raise(c1)
        ELSE send_to_server(c1, "AUTHENTICATE " \o
                 get_sasl_plain_payload(c.config.sasl[1].user, c.config.sasl[1].password))

client_supported_capabilities ==
    <<"message-tags", "echo-message", "server-time", "batch", "away-notify", "multi-prefix">>

\* _handshake_negociate_capabilities without its test of self.capabilities
_handshake_negociate_capabilities_request_all(c) ==
    LET c1 == [c EXCEPT !.handshake_steps =
                  Append(c.handshake_steps, HandshakeStep("is_001_received",
                                                          "_handshake_join_channels"))]
        wanted == client_supported_capabilities
    IN  SendLines(c1, [i \in 1..Len(wanted) |-> "CAP REQ :" \o wanted[i]] \o <<"CAP END">>)

_handshake_negociate_capabilities(c) ==
    LET c1 == [c EXCEPT !.handshake_steps =
                  Append(c.handshake_steps, HandshakeStep("is_001_received",
                                                          "_handshake_join_channels"))]
        wanted == SelectSeq(client_supported_capabilities,
                            LAMBDA capability : capability \in DOMAIN c.capabilities)
    IN  SendLines(c1, [i \in 1..Len(wanted) |-> "CAP REQ :" \o wanted[i]] \o <<"CAP END">>)

_handshake_join_channels(c) ==
    SendLines(c, [i \in 1..Len(c.config.channels) |-> "JOIN " \o c.config.channels[i]])

\* step()
RunStep(c, step) ==
    CASE step = "_handshake_authenticate_step_1" -> _handshake_authenticate_step_1(c)
      [] step = "_handshake_authenticate_step_2" -> _handshake_authenticate_step_2(c)
      [] step = "_handshake_negociate_capabilities" -> _handshake_negociate_capabilities(c)
      [] step = "_handshake_join_channels" -> _handshake_join_channels(c)

(***************************************************************************)
(* Command dispatcher.                                                     *)
(***************************************************************************)
_process_ping_message(c, msg) ==
    Ret(send_message_to_server(c, ClientMessage("PONG", msg.params)), <<>>)

\* self.channels[name].members[nick]
HasMember(c, name, nick) ==
    ODHas(c.channels, name) /\ ODHas(ODGet(c.channels, name).members, nick)

GetMember(c, name, nick) == ODGet(ODGet(c.channels, name).members, nick)

\* self.channels[name].members[nick] = member
SetMember(c, name, nick, member) ==
    LET channel == ODGet(c.channels, name)
    IN  [c EXCEPT !.channels =
            ODSet(c.channels, name,
                  [channel EXCEPT !.members = ODSet(channel.members, nick, member)])]

\* self.channels[name].members.pop(nick)
PopMember(c, name, nick) ==
    LET channel == ODGet(c.channels, name)
    IN  [c EXCEPT !.channels =
            ODSet(c.channels, name,
                  [channel EXCEPT !.members = ODDel(channel.members, nick)])]

_process_join_message(c, msg) ==
    IF msg.params = <<>> THEN Ret(Raise(c), <<>>)
    ELSE LET channel_name == msg.params[1]
             joins == msg.source.nick = c.nick /\ ~ODHas(c.channels, channel_name)
             c1 == IF joins
                   THEN [c EXCEPT !.channels =
                            ODSet(c.channels, channel_name, Channel(channel_name))]
                   ELSE c
             c2 == IF joins
                   THEN send_message_to_server(c1, ClientMessage("MODE", <<channel_name>>))
                   ELSE c1
             c3 == IF joins /\ ~c2.raised /\ "away-notify" \in DOMAIN c2.capabilities
                   THEN send_message_to_server(c2, ClientMessage("WHO", <<channel_name>>))
                   ELSE c2
             c4 == users_getitem(c3, msg.source.nick)
             user == c4.users[msg.source.nick]
         IN  IF c3.raised THEN Ret(c3, <<>>)
             ELSE IF ~ODHas(c4.channels, channel_name) THEN Ret(Raise(c4), <<>>)
             ELSE Ret(SetMember(c4, channel_name, c4.heap[user].source.nick, Member(user)),
                      <<Event("ChannelJoinedEvent",
                              [channel |-> channel_name, user |-> user], msg)>>)

\* _process_part_message without the deletion of the channel the client parts
_process_part_message_keeps_channel(c, msg) ==
    IF msg.params = <<>> THEN Ret(Raise(c), <<>>)
    ELSE LET channel_name == msg.params[1]
             nick == msg.source.nick
             own == nick = c.nick /\ ODHas(c.channels, channel_name)
         IN  IF ~own /\ ~HasMember(c, channel_name, nick) THEN Ret(Raise(c), <<>>)
             ELSE LET typing == ~own /\ GetMember(c, channel_name, nick).is_typing
                      c1 == IF own THEN c ELSE PopMember(c, channel_name, nick)
                      c2 == users_getitem(c1, nick)
                      rv == IF typing
                            THEN <<Event("ChannelTypingEvent", [channel |-> channel_name], msg)>>
                            ELSE <<>>
                  IN  Ret(c2, Append(rv, Event("ChannelPartEvent",
                                               [channel |-> channel_name,
                                                user |-> c2.users[nick]], msg)))

_process_part_message(c, msg) ==
    IF msg.params = <<>> THEN Ret(Raise(c), <<>>)
    ELSE LET channel_name == msg.params[1]
             nick == msg.source.nick
             own == nick = c.nick /\ ODHas(c.channels, channel_name)
         IN  IF ~own /\ ~HasMember(c, channel_name, nick) THEN Ret(Raise(c), <<>>)
             ELSE LET typing == ~own /\ GetMember(c, channel_name, nick).is_typing
                      c1 == IF own
                            THEN [c EXCEPT !.channels = ODDel(c.channels, channel_name)]
                            ELSE PopMember(c, channel_name, nick)
                      c2 == users_getitem(c1, nick)
                      rv == IF typing
                            THEN <<Event("ChannelTypingEvent", [channel |-> channel_name], msg)>>
                            ELSE <<>>
                  IN  Ret(c2, Append(rv, Event("ChannelPartEvent",
                                               [channel |-> channel_name,
                                                user |-> c2.users[nick]], msg)))

\* the loop of _process_quit_message from the i-th channel on
RECURSIVE QuitChannels(_, _, _, _)
QuitChannels(c, msg, i, rv) ==
    IF i > Len(c.channels) THEN Ret(c, rv)
    ELSE LET channel == c.channels[i][2]
             nick == msg.source.nick
         IN  IF ~ODHas(channel.members, nick) THEN QuitChannels(c, msg, i + 1, rv)
             ELSE LET member == ODGet(channel.members, nick)
                      c1 == [c EXCEPT
                               !.channels[i] =
                                   <<channel.name,
                                     [channel EXCEPT !.members = ODDel(channel.members, nick)]>>,
                               !.heap[member.user].is_away = FALSE]
                      rv1 == IF member.is_typing
                             THEN Append(rv, Event("ChannelTypingEvent",
                                                   [channel |-> channel.name], msg))
                             ELSE rv
                  IN  IF msg.params = <<>> THEN Ret(Raise(c1), <<>>)
                      ELSE QuitChannels(c1, msg, i + 1,
                               Append(rv1, Event("QuitEvent",
                                                 [channel |-> channel.name,
                                                  user |-> member.user,
                                                  reason |-> msg.params[1]], msg)))

\* _process_quit_message without the pop of the members
_process_quit_message_keeps_members(c, msg) ==
    Ret(c, QuitChannels(c, msg, 1, <<>>).rv)

_process_quit_message(c, msg) == QuitChannels(c, msg, 1, <<>>)

\* _generate_away_events without the test of a change of status
_generate_away_events_unconditional(c, msg, nick, is_away, away_message) ==
    LET c1 == users_getitem(c, nick)
        u == c1.users[nick]
        c2 == [c1 EXCEPT !.heap[u].is_away = is_away]
        present == SelectSeq(c2.channels, LAMBDA p : ODHas(p[2].members, nick))
    IN  Ret(c2,
            [i \in 1..Len(present) |->
               IF is_away
               THEN Event("GoneAwayEvent",
                          [channel |-> present[i][2].name,
                           user |-> ODGet(present[i][2].members, nick).user,
                           away_message |-> away_message], msg)
               ELSE Event("BackFromAwayEvent",
                          [channel |-> present[i][2].name,
                           user |-> ODGet(present[i][2].members, nick).user], msg)])

_generate_away_events(c, msg, nick, is_away, away_message) ==
    LET c1 == users_getitem(c, nick)
        u == c1.users[nick]
    IN  IF c1.heap[u].is_away = is_away THEN Ret(c1, <<>>)
        ELSE LET c2 == [c1 EXCEPT !.heap[u].is_away = is_away]
                 present == SelectSeq(c2.channels, LAMBDA p : ODHas(p[2].members, nick))
             IN  Ret(c2,
                     [i \in 1..Len(present) |->
                        IF is_away
                        THEN Event("GoneAwayEvent",
                                   [channel |-> present[i][2].name,
                                    user |-> ODGet(present[i][2].members, nick).user,
                                    away_message |-> away_message], msg)
                        ELSE Event("BackFromAwayEvent",
                                   [channel |-> present[i][2].name,
                                    user |-> ODGet(present[i][2].members, nick).user], msg)])

_process_away_message(c, msg) ==
    IF msg.params = <<>>
    THEN _generate_away_events(c, msg, msg.source.nick, FALSE, None)
    ELSE _generate_away_events(c, msg, msg.source.nick, TRUE, msg.params[1])

_process_305_message(c, msg) == _generate_away_events(c, msg, c.nick, FALSE, None)

_process_306_message(c, msg) == _generate_away_events(c, msg, c.nick, TRUE, "")

_process_kick_message(c, msg) ==
    IF Len(msg.params) < 3 THEN Ret(Raise(c), <<>>)
    ELSE LET channel_name == msg.params[1]
             kicked_nick == msg.params[2]
             reason == msg.params[3]
             own == kicked_nick = c.nick /\ ODHas(c.channels, channel_name)
         IN  IF ~own /\ ~HasMember(c, channel_name, kicked_nick) THEN Ret(Raise(c), <<>>)
             ELSE LET c1 == IF own
                            THEN [c EXCEPT !.channels = ODDel(c.channels, channel_name)]
                            ELSE PopMember(c, channel_name, kicked_nick)
                      c2 == users_getitem(c1, msg.source.nick)
                  IN  Ret(c2, <<Event("ChannelKickEvent",
                                      [channel |-> channel_name,
                                       user |-> c2.users[msg.source.nick],
                                       kicked_nick |-> kicked_nick,
                                       reason |-> reason], msg)>>)

\* the member set under the new nick without the pop of the old one
RenameMember_keeps_old(members, old_nick, new_nick) ==
    ODSet(members, new_nick, ODGet(members, old_nick))

\* channel.members.pop(old_nick); channel.members[new_nick] = member
RenameMember(members, old_nick, new_nick) ==
    ODSet(ODDel(members, old_nick), new_nick, ODGet(members, old_nick))

_process_nick_message(c, msg) ==
    IF msg.params = <<>> THEN Ret(Raise(c), <<>>)
    ELSE LET old_nick == msg.source.nick
             new_nick == msg.params[1]
             c1 == IF old_nick = c.nick THEN [c EXCEPT !.nick = new_nick] ELSE c
             c2 == users_getitem(c1, old_nick)
             user == c2.users[old_nick]
             c3 == [c2 EXCEPT
                      !.users = Update(Without(c2.users, old_nick),
                                       [k \in {new_nick} |-> user]),
                      !.heap[user].source.nick = new_nick]
             present == SelectSeq(c3.channels, LAMBDA p : ODHas(p[2].members, old_nick))
             c4 == [c3 EXCEPT !.channels =
                      [i \in 1..Len(c3.channels) |->
                         IF ODHas(c3.channels[i][2].members, old_nick)
                         THEN <<c3.channels[i][1],
                                [c3.channels[i][2] EXCEPT !.members =
                                    RenameMember(c3.channels[i][2].members,
                                                 old_nick, new_nick)]>>
                         ELSE c3.channels[i]]]
         IN  Ret(c4, [i \in 1..Len(present) |->
                        Event("NickChangedEvent",
                              [channel |-> present[i][2].name, user |-> user,
                               old_nick |-> old_nick, new_nick |-> new_nick], msg)])

\* one item of _iter_modestring, or the exception it ends with
ModeItem(is_add, mode, arg) == [is_add |-> is_add, mode |-> mode, arg |-> arg, raises |-> FALSE]
ModeRaise == [is_add |-> FALSE, mode |-> "", arg |-> None, raises |-> TRUE]

\* _iter_modestring from the i-th character (1-based) on: the items yielded, the
\* last one being ModeRaise when the generator raises (KeyError on
\* self.channel_modes[m], IndexError on args[args_i])
RECURSIVE IterModestring(_, _, _, _, _, _, _)
IterModestring(c, modestring, args, is_channel, i, is_add, args_i) ==
    IF i > Len(modestring) THEN <<>>
    ELSE LET m == SubSeq(modestring, i, i)
             plain == <<ModeItem(is_add, m, None)>>
                      \o IterModestring(c, modestring, args, is_channel, i + 1, is_add, args_i)
             taking == IF args_i >= Len(args) THEN <<ModeRaise>>
                       ELSE <<ModeItem(is_add, m, args[args_i + 1])>>
                            \o IterModestring(c, modestring, args, is_channel, i + 1,
                                              is_add, args_i + 1)
         IN  IF m = "+"
             THEN IterModestring(c, modestring, args, is_channel, i + 1, TRUE, args_i)
             ELSE IF m = "-"
             THEN IterModestring(c, modestring, args, is_channel, i + 1, FALSE, args_i)
             ELSE IF ~is_channel THEN plain
             ELSE IF ODHas(c.member_prefixes, m) THEN taking
             ELSE IF m \notin DOMAIN c.channel_modes THEN <<ModeRaise>>
             ELSE IF c.channel_modes[m] \in {"A", "B"} THEN taking
             ELSE IF c.channel_modes[m] = "C" /\ is_add THEN taking
             ELSE plain

_iter_modestring(c, modestring, args, is_channel) ==
    IterModestring(c, modestring, args, is_channel, 1, TRUE, 0)

\* the loop of _process_mode_message over the items of a channel target
RECURSIVE ModeChannel(_, _, _, _, _)
ModeChannel(c, msg, target, items, rv) ==
    IF items = <<>> THEN Ret(c, rv)
    ELSE LET item == Head(items)
             channel == ODGet(c.channels, target)
         IN  IF item.raises THEN Ret(Raise(c), <<>>)
             ELSE IF ODHas(c.member_prefixes, item.mode)
             THEN LET prefix == ODGet(c.member_prefixes, item.mode)
                  IN  IF ~ODHas(channel.members, item.arg) THEN Ret(Raise(c), <<>>)
                      ELSE LET member == ODGet(channel.members, item.arg)
                               keeps == item.is_add /\ Contains(member.prefixes, prefix)
                               prefixes == IF keeps THEN member.prefixes
                                           ELSE IF item.is_add THEN member.prefixes \o prefix
                                           ELSE Replace(member.prefixes, prefix, "")
                               member1 == IF keeps THEN member
                                          ELSE [member EXCEPT
                                                  !.prefixes = prefixes,
                                                  !.highest_prefix =
                                                      get_highest_member_prefix(
                                                          c.member_prefixes, prefixes)]
                           IN  ModeChannel(SetMember(c, target, item.arg, member1), msg,
                                           target, Tail(items),
                                           Append(rv, Event("ChannelNamesEvent",
                                                            [channel |-> channel.name,
                                                             nicks |-> <<>>], msg)))
             ELSE LET modes == IF item.is_add /\ ~Contains(channel.modes, item.mode)
                               THEN channel.modes \o item.mode
                               ELSE Replace(channel.modes, item.mode, "")
                  IN  ModeChannel([c EXCEPT !.channels =
                                      ODSet(c.channels, target,
                                            [channel EXCEPT !.modes = modes])],
                                  msg, target, Tail(items),
                                  Append(rv, Event("ChannelModeEvent",
                                                   [channel |-> channel.name,
                                                    modes |-> modes], msg)))

\* the modes of the items, those with is_add only when adds_only
ModesOf(items, adds_only) ==
    LET kept == SelectSeq(items, LAMBDA item : item.is_add \/ ~adds_only)
    IN  Join([i \in 1..Len(kept) |-> kept[i].mode], "")

_process_mode_message(c, msg) ==
    IF Len(msg.params) < 2 THEN Ret(Raise(c), <<>>)
    ELSE LET target == msg.params[1]
             modestring == msg.params[2]
             args == SubSeq(msg.params, 3, Len(msg.params))
         IN  IF ODHas(c.channels, target)
             THEN ModeChannel(c, msg, target, _iter_modestring(c, modestring, args, TRUE), <<>>)
             ELSE IF target \in DOMAIN c.users
             THEN Ret([c EXCEPT !.heap[c.users[target]].modes =
                          @ \o ModesOf(_iter_modestring(c, modestring, args, FALSE), TRUE)],
                      <<>>)
             ELSE Ret(c, <<>>)

_process_221_message(c, msg) ==
    IF Len(msg.params) < 2 THEN Ret(Raise(c), <<>>)
    ELSE LET c1 == users_getitem(c, msg.params[1])
         IN  Ret([c1 EXCEPT !.heap[c1.users[msg.params[1]]].modes = SliceFrom(msg.params[2], 1)],
                 <<>>)

_process_324_message(c, msg) ==
    IF Len(msg.params) < 3 THEN Ret(Raise(c), <<>>)
    ELSE LET channel_name == msg.params[2]
             modestring == msg.params[3]
             args == SubSeq(msg.params, 4, Len(msg.params))
             items == _iter_modestring(c, modestring, args, TRUE)
             modes == ModesOf(items, TRUE)
         IN  IF ~ODHas(c.channels, channel_name) THEN Ret(c, <<>>)
             ELSE IF \E i \in 1..Len(items) : items[i].raises THEN Ret(Raise(c), <<>>)
             ELSE Ret([c EXCEPT !.channels =
                          ODSet(c.channels, channel_name,
                                [ODGet(c.channels, channel_name) EXCEPT !.modes = modes])],
                      <<Event("ChannelModeEvent",
                              [channel |-> channel_name, modes |-> modes], msg)>>)

_process_332_message(c, msg) ==
    IF Len(msg.params) < 3 THEN Ret(Raise(c), <<>>)
    ELSE LET channel_name == msg.params[2]
             topic == msg.params[3]
             c1 == IF ODHas(c.channels, channel_name)
                   THEN [c EXCEPT !.channels =
                            ODSet(c.channels, channel_name,
                                  [ODGet(c.channels, channel_name) EXCEPT !.topic = topic])]
                   ELSE c
         IN  Ret(c1, <<Event("ChannelTopicEvent",
                             [channel |-> channel_name, topic |-> topic], msg)>>)

Digits == "0123456789"

\* str.strip() of the blanks a parameter can hold
RECURSIVE Strip(_)
Strip(s) ==
    IF s = "" THEN s
    ELSE IF SubSeq(s, 1, 1) \in {" ", "\t", "\n", "\r"} THEN Strip(Tail(s))
    ELSE IF SubSeq(s, Len(s), Len(s)) \in {" ", "\t", "\n", "\r"} THEN Strip(SliceTo(s, -1))
    ELSE s

\* the digits and underscores of an integer literal, without blanks and sign
IntBody(s) ==
    LET t == Strip(s)
    IN  IF StartsWith(t, "+") \/ StartsWith(t, "-") THEN SliceFrom(t, 1) ELSE t

\* int(s) raises ValueError
int_raises(s) ==
    LET body == IntBody(s)
    IN  \/ body = ""
        \/ \E i \in 1..Len(body) : ~Contains(Digits \o "_", SubSeq(body, i, i))
        \/ StartsWith(body, "_") \/ EndsWith(body, "_") \/ Contains(body, "__")

RECURSIVE WithoutLeadingZeros(_)
WithoutLeadingZeros(s) ==
    IF Len(s) > 1 /\ StartsWith(s, "0") THEN WithoutLeadingZeros(Tail(s)) ELSE s

\* int(s) as [negative, digits]: the sign and the decimal digits of the magnitude
int(s) ==
    LET digits == WithoutLeadingZeros(Replace(IntBody(s), "_", ""))
    IN  [negative |-> StartsWith(Strip(s), "-") /\ digits /= "0", digits |-> digits]

\* a > b for magnitudes written in decimal digits without leading zeros
RECURSIVE GreaterDigits(_, _)
GreaterDigits(a, b) ==
    IF Len(a) /= Len(b) THEN Len(a) > Len(b)
    ELSE IF a = "" THEN FALSE
    ELSE IF SubSeq(a, 1, 1) /= SubSeq(b, 1, 1)
    THEN Find(Digits, SubSeq(a, 1, 1)) > Find(Digits, SubSeq(b, 1, 1))
    ELSE GreaterDigits(Tail(a), Tail(b))

\* datetime.fromtimestamp(n, tz=timezone.utc) raises: n is outside the years 1..9999
fromtimestamp_raises(n) ==
    IF n.negative THEN GreaterDigits(n.digits, "62135596800")
    ELSE GreaterDigits(n.digits, "253402300799")

_process_333_message(c, msg) ==
    IF Len(msg.params) < 4 THEN Ret(Raise(c), <<>>)
    ELSE LET channel_name == msg.params[2]
             who == msg.params[3]
             date == msg.params[4]
         IN  IF int_raises(date) THEN Ret(Raise(c), <<>>)
             ELSE IF fromtimestamp_raises(int(date)) THEN Ret(Raise(c), <<>>)
             ELSE Ret(c, <<Event("ChannelTopicWhoTimeEvent",
                                 [channel |-> channel_name,
                                  set_by |-> parse_message_source(who),
                                  set_at |-> int(date)], msg)>>)

\* return msg in place of a list: iterating over a Message raises TypeError
_process_352_message(c, msg) ==
    IF Len(msg.params) < 7 THEN Ret(Raise(c), <<>>)
    ELSE LET channel_name == msg.params[2]
             nick == msg.params[6]
             is_away == msg.params[7] = "G"
             c1 == users_getitem(c, nick)
         IN  IF "away-notify" \in DOMAIN c.capabilities /\ ~ODHas(c.channels, channel_name)
             THEN Ret(Raise(c), <<>>)
             ELSE Ret([c1 EXCEPT !.heap[c1.users[nick]].is_away = is_away], <<>>)

_process_315_message(c, msg) ==
    IF Len(msg.params) < 2 THEN Ret(Raise(c), <<>>)
    ELSE LET channel_name == msg.params[2]
         IN  IF "away-notify" \in DOMAIN c.capabilities /\ ~ODHas(c.channels, channel_name)
             THEN Ret(Raise(c), <<>>)
             ELSE Ret(c, <<Event("ChannelNamesEvent",
                                 [channel |-> channel_name, nicks |-> <<>>], msg)>>)

\* the values of TypingStatus
TypingStatus == {"active", "paused", "done"}

_process_tagmsg_message(c, msg) ==
    IF "+typing" \notin DOMAIN msg.tags THEN Ret(c, <<>>)
    ELSE IF msg.tags["+typing"] \notin TypingStatus THEN Ret(Raise(c), <<>>)
    ELSE IF msg.params = <<>> THEN Ret(c, <<>>)
    ELSE LET channel_name == msg.params[1]
             nick == msg.source.nick
         IN  IF ~HasMember(c, channel_name, nick) THEN Ret(c, <<>>)
             ELSE LET member == GetMember(c, channel_name, nick)
                      member1 == IF msg.tags["+typing"] = "active"
                                 THEN [member EXCEPT !.is_typing = TRUE,
                                                     !.last_typing_update_at = c.now]
                                 ELSE [member EXCEPT !.is_typing = FALSE,
                                                     !.last_typing_update_at = NoTime]
                  IN  Ret(SetMember(c, channel_name, nick, member1),
                          IF member.is_typing /= member1.is_typing
                          THEN <<Event("ChannelTypingEvent", [channel |-> channel_name], msg)>>
                          ELSE <<>>)

\* the seconds between two typing notifications of the client
TypingUpdatePeriod == 3

\* should_send_active_typing_update with a period that ends one second early
should_send_active_typing_update_early(c, channel_name) ==
    IF "message-tags" \notin DOMAIN c.capabilities THEN FALSE
    ELSE IF ~HasMember(c, channel_name, c.nick) THEN FALSE
    ELSE LET member == GetMember(c, channel_name, c.nick)
         IN  IF ~member.is_typing THEN TRUE
             ELSE IF member.last_typing_update_at = NoTime THEN TRUE
             ELSE member.last_typing_update_at + TypingUpdatePeriod <= c.now

\* IRCClient.should_send_active_typing_update, c.now being get_utc_now() in
\* seconds
should_send_active_typing_update(c, channel_name) ==
    IF "message-tags" \notin DOMAIN c.capabilities THEN FALSE
    ELSE IF ~HasMember(c, channel_name, c.nick) THEN FALSE
    ELSE LET member == GetMember(c, channel_name, c.nick)
         IN  IF ~member.is_typing THEN TRUE
             ELSE IF member.last_typing_update_at = NoTime THEN TRUE
             ELSE member.last_typing_update_at + TypingUpdatePeriod < c.now

\* mark_sent_active_typing_update without the time of the notification
mark_sent_active_typing_update_without_time(c, channel_name) ==
    IF ~HasMember(c, channel_name, c.nick) THEN c
    ELSE SetMember(c, channel_name, c.nick,
                   [GetMember(c, channel_name, c.nick) EXCEPT !.is_typing = TRUE])

\* IRCClient.mark_sent_active_typing_update
mark_sent_active_typing_update(c, channel_name) ==
    IF ~HasMember(c, channel_name, c.nick) THEN c
    ELSE SetMember(c, channel_name, c.nick,
                   [GetMember(c, channel_name, c.nick) EXCEPT
                       !.is_typing = TRUE, !.last_typing_update_at = c.now])

\* mark_sent_done_typing_update without the reset of last_typing_update_at
mark_sent_done_typing_update_keeps_time(c, channel_name) ==
    IF ~HasMember(c, channel_name, c.nick) THEN c
    ELSE SetMember(c, channel_name, c.nick,
                   [GetMember(c, channel_name, c.nick) EXCEPT !.is_typing = FALSE])

\* IRCClient.mark_sent_done_typing_update
mark_sent_done_typing_update(c, channel_name) ==
    IF ~HasMember(c, channel_name, c.nick) THEN c
    ELSE SetMember(c, channel_name, c.nick,
                   [GetMember(c, channel_name, c.nick) EXCEPT
                       !.is_typing = FALSE, !.last_typing_update_at = NoTime])

\* a < b for two Python strings
RECURSIVE StrLess(_, _)
StrLess(a, b) ==
    IF b = "" THEN FALSE
    ELSE IF a = "" THEN TRUE
    ELSE IF SubSeq(a, 1, 1) /= SubSeq(b, 1, 1)
    THEN Ord(SubSeq(a, 1, 1)) < Ord(SubSeq(b, 1, 1))
    ELSE StrLess(Tail(a), Tail(b))

\* a < b for two Python lists of strings
RECURSIVE ListLess(_, _)
ListLess(a, b) ==
    IF b = <<>> THEN FALSE
    ELSE IF a = <<>> THEN TRUE
    ELSE IF Head(a) /= Head(b) THEN StrLess(Head(a), Head(b))
    ELSE ListLess(Tail(a), Tail(b))

\* the key of sort_members_by_prefix: the list of the indexes, as strings, of
\* all the prefixes of the member in their stored order or, when the member
\* has no prefix, 'z' followed by the characters of the lowercased nick
\* ("or" binds less tightly than "+")
SortKey(c, member) ==
    IF member.prefixes /= ""
    THEN [i \in 1..Len(member.prefixes) |->
            ToString((CHOOSE j \in 1..Len(c.member_prefixes) :
                        /\ c.member_prefixes[j][2] = SubSeq(member.prefixes, i, i)
                        /\ \A k \in 1..(j - 1) :
                              c.member_prefixes[k][2] /= SubSeq(member.prefixes, i, i)) - 1)]
    ELSE LET lowered == Lower(c.heap[member.user].source.nick)
         IN  <<"z">> \o [i \in 1..Len(lowered) |-> SubSeq(lowered, i, i)]

\* member_prefixes_symbols.index(c) raises ValueError for a prefix of a member
\* that is not among the symbols
sort_members_by_prefix_raises(c, members) ==
    \E i \in 1..Len(members) : \E j \in 1..Len(members[i].prefixes) :
        \A k \in 1..Len(c.member_prefixes) :
            c.member_prefixes[k][2] /= SubSeq(members[i].prefixes, j, j)

\* sorted(): the member goes after the sorted members whose key is not greater
RECURSIVE InsertByKey(_, _, _)
InsertByKey(c, sorted, member) ==
    IF sorted = <<>> THEN <<member>>
    ELSE LET last == sorted[Len(sorted)]
         IN  IF ListLess(SortKey(c, member), SortKey(c, last))
             THEN Append(InsertByKey(c, SubSeq(sorted, 1, Len(sorted) - 1), member), last)
             ELSE Append(sorted, member)

\* IRCClient.sort_members_by_prefix, when it does not raise
RECURSIVE sort_members_by_prefix(_, _)
sort_members_by_prefix(c, members) ==
    IF members = <<>> THEN <<>>
    ELSE InsertByKey(c, sort_members_by_prefix(c, SubSeq(members, 1, Len(members) - 1)),
                     members[Len(members)])

\* the names x for which IRCClient has a method _process_x_message
MethodNames ==
    {"ping", "join", "part", "quit", "away", "305", "306", "kick", "nick", "mode",
     "221", "324", "332", "333", "352", "315", "tagmsg"}

\* getattr(self, "_process_<command>_message")(msg)
CallMethod(c, name, msg) ==
    CASE name = "ping" -> _process_ping_message(c, msg)
      [] name = "join" -> _process_join_message(c, msg)
      [] name = "part" -> _process_part_message(c, msg)
      [] name = "quit" -> _process_quit_message(c, msg)
      [] name = "away" -> _process_away_message(c, msg)
      [] name = "305" -> _process_305_message(c, msg)
      [] name = "306" -> _process_306_message(c, msg)
      [] name = "kick" -> _process_kick_message(c, msg)
      [] name = "nick" -> _process_nick_message(c, msg)
      [] name = "mode" -> _process_mode_message(c, msg)
      [] name = "221" -> _process_221_message(c, msg)
      [] name = "324" -> _process_324_message(c, msg)
      [] name = "332" -> _process_332_message(c, msg)
      [] name = "333" -> _process_333_message(c, msg)
      [] name = "352" -> _process_352_message(c, msg)
      [] name = "315" -> _process_315_message(c, msg)
      [] name = "tagmsg" -> _process_tagmsg_message(c, msg)

\* _member_from_nick without the split of the prefix symbols
MemberNickStart_without_split(c, nick) == 0

\* _member_from_nick of the 366 branch: the index at which the nick starts
MemberNickStart(c, nick) ==
    LET symbols == {c.member_prefixes[k][2] : k \in 1..Len(c.member_prefixes)}
        stops == {i \in 0..(Len(nick) - 1) : SubSeq(nick, i + 1, i + 1) \notin symbols}
    IN  IF nick = "" THEN 0
        ELSE IF stops = {} THEN Len(nick) - 1
        ELSE CHOOSE i \in stops : \A j \in stops : i <= j

\* members = [_member_from_nick(nick) for nick in nicks]: the client after the
\* lookups of self.users and the list of members
RECURSIVE MembersFromNicks(_, _, _)
MembersFromNicks(c, nicks, members) ==
    IF nicks = <<>> THEN [c |-> c, members |-> members]
    ELSE LET raw == Head(nicks)
             i == MemberNickStart(c, raw)
             prefixes == SliceTo(raw, i)
             nick == SliceFrom(raw, i)
             c1 == users_getitem(c, nick)
             m == [Member(c1.users[nick]) EXCEPT
                     !.prefixes = prefixes,
                     !.highest_prefix = get_highest_member_prefix(c.member_prefixes, prefixes)]
         IN  MembersFromNicks(c1, Tail(nicks), Append(members, m))

\* the 005 branch of _process_message after self.supported has been updated
Process005Supported(c) ==
    LET hasPrefix == "PREFIX" \in DOMAIN c.supported
        hasNetwork == "NETWORK" \in DOMAIN c.supported
        hasChanmodes == "CHANMODES" \in DOMAIN c.supported
    IN  IF hasPrefix /\ parse_member_prefixes_raises(c.supported["PREFIX"]) THEN Raise(c)
        ELSE LET c1 == IF hasPrefix
                       THEN [c EXCEPT !.member_prefixes =
                                parse_member_prefixes(c.supported["PREFIX"])]
                       ELSE c
                 c2 == IF hasNetwork /\ c1.supported["NETWORK"] /= ""
                       THEN [c1 EXCEPT !.name = c1.supported["NETWORK"]]
                       ELSE c1
             IN  IF hasChanmodes
                 THEN IF parse_chanmodes_raises(c2.supported["CHANMODES"]) THEN Raise(c2)
                      ELSE [c2 EXCEPT !.channel_modes = parse_chanmodes(c2.supported["CHANMODES"])]
                 ELSE c2

RECURSIVE _process_message(_, _)
RECURSIVE ProcessBatchMessages(_, _, _)

\* the loop over the batch taking the newest message first
RECURSIVE ProcessBatchMessages_newest_first(_, _, _)
ProcessBatchMessages_newest_first(c, msgs, rv) ==
    IF msgs = <<>> THEN Ret(c, rv)
    ELSE LET r == _process_message(c, msgs[Len(msgs)])
         IN  IF r.c.raised THEN Ret(r.c, <<>>)
             ELSE ProcessBatchMessages_newest_first(r.c, SubSeq(msgs, 1, Len(msgs) - 1),
                                                    rv \o r.rv)

\* for batch_msg in ...: rv.extend(self._process_message(batch_msg))
ProcessBatchMessages(c, msgs, rv) ==
    IF msgs = <<>> THEN Ret(c, rv)
    ELSE LET r == _process_message(c, Head(msgs))
         IN  IF r.c.raised THEN Ret(r.c, <<>>)
             ELSE ProcessBatchMessages(r.c, Tail(msgs), rv \o r.rv)

_process_message(c, msg) ==
    IF msg.command = "BATCH" THEN
        IF msg.params = <<>> THEN Ret(Raise(c), <<>>)
        ELSE LET id == SliceFrom(msg.params[1], 1)
             IN  IF StartsWith(msg.params[1], "+")
                 THEN Ret([c EXCEPT !.tmp_batches = Update(c.tmp_batches, [k \in {id} |-> <<>>])],
                          <<>>)
                 ELSE IF StartsWith(msg.params[1], "-")
                 THEN IF id \in DOMAIN c.tmp_batches
                      THEN ProcessBatchMessages(
                               [c EXCEPT !.tmp_batches = Without(c.tmp_batches, id)],
                               c.tmp_batches[id], <<>>)
                      ELSE Ret(c, <<>>)
                 ELSE Ret(c, <<>>)
    ELSE IF "batch" \in DOMAIN msg.tags /\ msg.tags["batch"] \in DOMAIN c.tmp_batches THEN
        Ret([c EXCEPT !.tmp_batches[msg.tags["batch"]] = Append(@, msg)], <<>>)
    ELSE IF Lower(msg.command) \in MethodNames THEN
        CallMethod(c, Lower(msg.command), msg)
    ELSE IF msg.command \in {"PRIVMSG", "NOTICE"} THEN
        IF msg.params = <<>> THEN Ret(Raise(c), <<>>)
        ELSE LET destination == IF msg.params[1] = c.config.nick
                                THEN (IF msg.source.nick /= "" THEN msg.source.nick
                                      ELSE msg.source.host)
                                ELSE msg.params[1]
                 c1 == users_getitem(c, msg.source.nick)
                 c2 == [c1 EXCEPT !.heap[c1.users[msg.source.nick]].last_message_at = c.now]
             IN  IF Len(msg.params) < 2 THEN Ret(Raise(c2), <<>>)
                 ELSE LET ev == Event("NewMessageEvent",
                                      [channel |-> destination, message |-> msg.params[2]], msg)
                          typing == ODHas(c2.channels, destination)
                                    /\ ODHas(ODGet(c2.channels, destination).members,
                                             msg.source.nick)
                                    /\ ODGet(ODGet(c2.channels, destination).members,
                                             msg.source.nick).is_typing
                      IN  IF typing
                          THEN LET ch == ODGet(c2.channels, destination)
                                   m == ODGet(ch.members, msg.source.nick)
                                   m1 == [m EXCEPT !.is_typing = FALSE,
                                                   !.last_typing_update_at = NoTime]
                                   ch1 == [ch EXCEPT !.members =
                                              ODSet(ch.members, msg.source.nick, m1)]
                               IN  Ret([c2 EXCEPT !.channels =
                                           ODSet(c2.channels, destination, ch1)],
                                       <<ev, Event("ChannelTypingEvent",
                                                   [channel |-> destination], msg)>>)
                          ELSE Ret(c2, <<ev>>)
    ELSE IF msg.command \in {"001", "002", "003", "004"} THEN
        Ret(c, <<Event("NewMessageFromServerEvent",
                       [message |-> Join(SliceFrom(msg.params, 1), " ")], msg)>>)
    ELSE IF msg.command = "005" THEN
        LET p == parse_supported(msg.params)
            c1 == [c EXCEPT !.supported =
                      [k \in (DOMAIN c.supported \cup DOMAIN p.supported) \ p.not_supported |->
                          Update(c.supported, p.supported)[k]]]
        IN  Ret(Process005Supported(c1), <<>>)
    ELSE IF msg.command = "375" THEN
        Ret([c EXCEPT !.tmp_motd = <<>>], <<>>)
    ELSE IF msg.command = "372" THEN
        IF Len(msg.params) < 2 THEN Ret(Raise(c), <<>>)
        ELSE Ret([c EXCEPT !.tmp_motd = Append(c.tmp_motd,
                     Event("NewMessageFromServerEvent", [message |-> msg.params[2]], msg))],
                 <<>>)
    ELSE IF msg.command = "376" THEN
        Ret([c EXCEPT !.tmp_motd = <<>>], c.tmp_motd)
    ELSE IF msg.command = "353" THEN
        IF Len(msg.params) < 4 THEN Ret(Raise(c), <<>>)
        ELSE LET channel == msg.params[3]
                 nicks == Split(msg.params[4], " ")
                 old == IF channel \in DOMAIN c.tmp_channel_nicks
                        THEN c.tmp_channel_nicks[channel] ELSE <<>>
             IN  Ret([c EXCEPT !.tmp_channel_nicks =
                         Update(c.tmp_channel_nicks, [k \in {channel} |-> old \o nicks])],
                     <<>>)
    ELSE IF msg.command = "366" THEN
        IF Len(msg.params) < 2 THEN Ret(Raise(c), <<>>)
        ELSE LET channel == msg.params[2]
             IN  IF channel \notin DOMAIN c.tmp_channel_nicks THEN Ret(Raise(c), <<>>)
                 ELSE LET nicks == c.tmp_channel_nicks[channel]
                          c1 == [c EXCEPT !.tmp_channel_nicks = Without(c.tmp_channel_nicks, channel)]
                          r == MembersFromNicks(c1, nicks, <<>>)
                          members == ODOfPairs([i \in 1..Len(r.members) |->
                                        <<r.c.heap[r.members[i].user].source.nick, r.members[i]>>])
                      IN  IF ~ODHas(r.c.channels, channel) THEN Ret(Raise(r.c), <<>>)
                          ELSE Ret([r.c EXCEPT !.channels =
                                       ODSet(r.c.channels, channel,
                                             [ODGet(r.c.channels, channel) EXCEPT
                                                 !.members = members])],
                                   <<Event("ChannelNamesEvent",
                                           [channel |-> channel, nicks |-> nicks], msg)>>)
    ELSE IF msg.command = "CAP" THEN
        IF Len(msg.params) < 2 THEN Ret(Raise(c), <<>>)
        ELSE IF msg.params[2] = "LS"
        THEN Ret([c EXCEPT !.capabilities = Update(c.capabilities,
                                                   parse_capabilities_ls(msg.params))],
                 <<msg>>)
        ELSE Ret(c, <<msg>>)
    ELSE Ret(c, <<msg>>)

(***************************************************************************)
(* Line framer and add_received_data.                                      *)
(***************************************************************************)
CRLF == "\r\n"

\* parse_received without its messages.pop(): the bytes after the last CRLF
\* are yielded as a message too
parse_received_without_pop(recv_buffer) ==
    LET messages == Split(recv_buffer, CRLF)
        index == RFind(recv_buffer, CRLF)
    IN  IF index /= -1
        THEN [messages |-> messages,
              recv_buffer |-> SliceFrom(recv_buffer, index + 2),
              consumed |-> Len(messages) - 1]
        ELSE [messages |-> messages, recv_buffer |-> recv_buffer, consumed |-> 0]

\* parse_received: the lines to parse, in order, and the buffer left
parse_received(recv_buffer) ==
    LET messages == Split(recv_buffer, CRLF)
        index == RFind(recv_buffer, CRLF)
    IN  IF index /= -1
        THEN [messages |-> SubSeq(messages, 1, Len(messages) - 1),
              recv_buffer |-> SliceFrom(recv_buffer, index + 2),
              consumed |-> Len(messages) - 1]
        ELSE [messages |-> messages, recv_buffer |-> recv_buffer, consumed |-> 0]

\* self._handshake_steps.remove(handshake_step)
RemoveFirst(steps, x) ==
    LET i == CHOOSE i \in 1..Len(steps) : steps[i] = x /\ \A j \in 1..(i - 1) : steps[j] /= x
    IN  SubSeq(steps, 1, i - 1) \o SubSeq(steps, i + 1, Len(steps))

\* for handshake_step in self._handshake_steps.copy(): ...
RECURSIVE RunHandshakeSteps(_, _, _)
RunHandshakeSteps(c, msg, steps) ==
    IF steps = <<>> \/ c.raised THEN c
    ELSE LET handshake_step == Head(steps)
         IN  IF StepFence(handshake_step.fence, msg)
             THEN RunHandshakeSteps(
                      RunStep([c EXCEPT !.handshake_steps = RemoveFirst(@, handshake_step)],
                              handshake_step.step),
                      msg, Tail(steps))
             ELSE RunHandshakeSteps(c, msg, Tail(steps))

\* the loop putting each event at the head of the inbox
RECURSIVE PutProcessed_at_head(_, _, _)
PutProcessed_at_head(c, msg, events) ==
    IF events = <<>> \/ c.raised THEN c
    ELSE LET c1 == [c EXCEPT !.inbox = <<Head(events)>> \o c.inbox]
         IN  PutProcessed_at_head(RunHandshakeSteps(c1, msg, c1.handshake_steps),
                                  msg, Tail(events))

\* the loop stopped after the first event
PutProcessed_first_only(c, msg, events) ==
    IF events = <<>> \/ c.raised THEN c
    ELSE LET c1 == [c EXCEPT !.inbox = Append(c.inbox, Head(events))]
         IN  RunHandshakeSteps(c1, msg, c1.handshake_steps)

\* for processed_msg in self._process_message(msg): ...
RECURSIVE PutProcessed(_, _, _)
PutProcessed(c, msg, events) ==
    IF events = <<>> \/ c.raised THEN c
    ELSE LET c1 == [c EXCEPT !.inbox = Append(c.inbox, Head(events))]
         IN  PutProcessed(RunHandshakeSteps(c1, msg, c1.handshake_steps), msg, Tail(events))

\* the origins of the messages held in _tmp_batches and _tmp_motd
HeldOrigins(c) ==
    UNION {{c.tmp_batches[id][i].origin : i \in 1..Len(c.tmp_batches[id])} :
              id \in DOMAIN c.tmp_batches}
    \cup {c.tmp_motd[i].origin : i \in 1..Len(c.tmp_motd)}

\* for msg in parse_received(self._recv_buffer): ...; lines[1] is input line
\* number base + k
RECURSIVE ProcessReceived(_, _, _, _)
ProcessReceived(c, lines, base, k) ==
    IF lines = <<>> \/ c.raised THEN c
    ELSE LET msg == parse_message(Head(lines)) @@ [origin |-> base + k]
             r == _process_message([c EXCEPT !.parsed = Append(@, Head(lines))], msg)
         IN  IF r.c.raised THEN r.c
             ELSE ProcessReceived(
                      PutProcessed([r.c EXCEPT !.held = @ \cup HeldOrigins(r.c)], msg, r.rv),
                      Tail(lines), base, k + 1)

\* IRCClient.add_received_data
add_received_data(c, data) ==
    LET p == parse_received(c.recv_buffer \o data)
    IN  ProcessReceived([c EXCEPT !.recv_buffer = p.recv_buffer,
                                  !.nlines = @ + p.consumed],
                        p.messages, c.nlines, 1)

\* IRCClient.notify_connection_established
connection_established(c) ==
    _hanshake_start([c EXCEPT !.server_connection = "connection"])

\* IRCClient.notify_connection_closed
connection_closed(c) ==
    [c EXCEPT !.inbox = Append(c.inbox, [type |-> "ConnectionClosedEvent"])]

(***************************************************************************)
(* The state: the fields of the IRCClient instance, and the host:          *)
(* transport is the state of the connection of IRCClientProtocol           *)
(* (main.init calls notify_connection_established once the connection is   *)
(* made, data_received is called while it is open, connection_lost ends    *)
(* it), pushes is the list of the data handed to add_received_data.        *)
(***************************************************************************)
VARIABLES config, server_connection, inbox, outbox, capabilities, supported,
          member_prefixes, channel_modes, name, nick, channels, users, heap,
          recv_buffer, tmp_channel_nicks, tmp_batches, tmp_motd, handshake_steps,
          raised, now, nlines, parsed, held, transport, pushes

vars == <<config, server_connection, inbox, outbox, capabilities, supported,
          member_prefixes, channel_modes, name, nick, channels, users, heap,
          recv_buffer, tmp_channel_nicks, tmp_batches, tmp_motd, handshake_steps,
          raised, now, nlines, parsed, held, transport, pushes>>

\* the IRCClient instance
Self ==
    [config |-> config, server_connection |-> server_connection, inbox |-> inbox,
     outbox |-> outbox, capabilities |-> capabilities, supported |-> supported,
     member_prefixes |-> member_prefixes, channel_modes |-> channel_modes,
     name |-> name, nick |-> nick, channels |-> channels, users |-> users,
     heap |-> heap, recv_buffer |-> recv_buffer,
     tmp_channel_nicks |-> tmp_channel_nicks, tmp_batches |-> tmp_batches,
     tmp_motd |-> tmp_motd, handshake_steps |-> handshake_steps, raised |-> raised,
     now |-> now, nlines |-> nlines, parsed |-> parsed, held |-> held]

\* the instance is c in the initial state
Is(c) ==
    /\ config = c.config /\ server_connection = c.server_connection
    /\ inbox = c.inbox /\ outbox = c.outbox /\ capabilities = c.capabilities
    /\ supported = c.supported /\ member_prefixes = c.member_prefixes
    /\ channel_modes = c.channel_modes /\ name = c.name /\ nick = c.nick
    /\ channels = c.channels /\ users = c.users /\ heap = c.heap
    /\ recv_buffer = c.recv_buffer /\ tmp_channel_nicks = c.tmp_channel_nicks
    /\ tmp_batches = c.tmp_batches /\ tmp_motd = c.tmp_motd
    /\ handshake_steps = c.handshake_steps /\ raised = c.raised /\ now = c.now
    /\ nlines = c.nlines /\ parsed = c.parsed /\ held = c.held

\* the instance becomes c
Becomes(c) ==
    /\ config' = c.config /\ server_connection' = c.server_connection
    /\ inbox' = c.inbox /\ outbox' = c.outbox /\ capabilities' = c.capabilities
    /\ supported' = c.supported /\ member_prefixes' = c.member_prefixes
    /\ channel_modes' = c.channel_modes /\ name' = c.name /\ nick' = c.nick
    /\ channels' = c.channels /\ users' = c.users /\ heap' = c.heap
    /\ recv_buffer' = c.recv_buffer /\ tmp_channel_nicks' = c.tmp_channel_nicks
    /\ tmp_batches' = c.tmp_batches /\ tmp_motd' = c.tmp_motd
    /\ handshake_steps' = c.handshake_steps /\ raised' = c.raised /\ now' = c.now
    /\ nlines' = c.nlines /\ parsed' = c.parsed /\ held' = c.held

\* the configurations of the model: config.sasl is absent or present
Config(sasl) ==
    [server |-> "irc.example", nick |-> "me", user |-> "u", real_name |-> "r n",
     channels |-> <<"#a", "#b">>, sasl |-> sasl]

ConfigNoSasl == Config(<<>>)
ConfigSasl == Config(<<[user |-> "foo", password |-> "bar"]>>)

\* main.init: IRCClient(irc_connection_config, inbox), the connection not made yet
InitWith(configs) ==
    /\ \E cfg \in configs : Is(NewClient(cfg))
    /\ transport = "connecting"
    /\ pushes = <<>>

\* main.init: irc_client.notify_connection_established(protocol)
notify_connection_established ==
    /\ transport = "connecting"
    /\ Becomes(connection_established(Self))
    /\ transport' = "open"
    /\ UNCHANGED pushes

\* IRCClientProtocol.data_received(data), for at most max calls
data_received(data, max) ==
    /\ transport = "open"
    /\ ~raised
    /\ Len(pushes) < max
    /\ Becomes(add_received_data(Self, data))
    /\ pushes' = Append(pushes, data)
    /\ UNCHANGED transport

\* IRCClientProtocol.connection_lost
connection_lost ==
    /\ transport = "open"
    /\ Becomes(connection_closed(Self))
    /\ transport' = "closed"
    /\ UNCHANGED pushes

\* the host registers that it has sent a typing notification of the user of
\* the client for the channel: IRCClient.mark_sent_active_typing_update
sent_active_typing_update(channel_name) ==
    /\ transport /= "connecting"
    /\ ~raised
    /\ Becomes(mark_sent_active_typing_update(Self, channel_name))
    /\ UNCHANGED <<transport, pushes>>

\* and that it has sent the end of it: IRCClient.mark_sent_done_typing_update
sent_done_typing_update(channel_name) ==
    /\ transport /= "connecting"
    /\ ~raised
    /\ Becomes(mark_sent_done_typing_update(Self, channel_name))
    /\ UNCHANGED <<transport, pushes>>

\* one second passes: get_utc_now() returns one more, up to max
tick(max) ==
    /\ now < max
    /\ Becomes([Self EXCEPT !.now = @ + 1])
    /\ UNCHANGED <<transport, pushes>>

\* IRCClient.add_received_data(data) called on the instance before or after
\* notify_connection_closed (the class is a sans-IO interface: nothing in it
\* ties the call to the state of the connection), for at most max calls
add_received_data_called(data, max) ==
    /\ transport \in {"open", "closed"}
    /\ ~raised
    /\ Len(pushes) < max
    /\ Becomes(add_received_data(Self, data))
    /\ pushes' = Append(pushes, data)
    /\ UNCHANGED transport

(***************************************************************************)
(* Specifications: the same operations under the inputs of one part of     *)
(* the protocol each.                                                      *)
(***************************************************************************)
\* the framer: lines of letters, pushed whole, in pieces and several at once
FramingData == {"A", "\r", "\n", "\r\n", "b\r\nA", "A\r\nb\r\nC"}

FramingReceived == \E data \in FramingData : data_received(data, MaxFramingPushes)

InitFraming == InitWith({ConfigNoSasl})
NextFraming == notify_connection_established \/ FramingReceived \/ connection_lost
SpecFraming == InitFraming /\ [][NextFraming]_vars

\* the handshake: the replies of the server to CAP LS, AUTHENTICATE, NICK/USER
HandshakeData ==
    {"CAP * LS * :batch sasl\r\n",
     ":srv CAP * LS :server-time sasl=PLAIN\r\n",
     "AUTHENTICATE +\r\n",
     ":srv 903 me :SASL ok\r\n",
     ":srv 001 me :Welcome\r\n",
     "BATCH +1\r\n",
     "@batch=1 :srv 001 me :Welcome\r\n",
     "PING :x\r\n"}

HandshakeReceived == \E data \in HandshakeData : data_received(data, MaxHandshakePushes)

Init == InitWith({ConfigNoSasl, ConfigSasl})
Next == notify_connection_established \/ HandshakeReceived \/ connection_lost
Spec == Init /\ [][Next]_vars

\* batches and the MOTD: lines held back and lines dispatched at once
BatchData ==
    {"BATCH +1\r\n",
     "BATCH -1\r\n",
     "@batch=1 :a!u@h NOTICE #a :one\r\n",
     "@batch=1 :b!u@h PRIVMSG #a :two\r\n",
     "@batch=1 PING :x\r\n",
     ":c!u@h NOTICE #a :three\r\n",
     ":srv 372 me :motd\r\n",
     ":srv 376 me :end\r\n"}

BatchReceived == \E data \in BatchData : data_received(data, MaxBatchPushes)

InitBatch == InitWith({ConfigNoSasl})
NextBatch == notify_connection_established \/ BatchReceived \/ connection_lost
SpecBatch == InitBatch /\ [][NextBatch]_vars

\* channels and their members: the client and the users x and y join, type,
\* leave, are kicked, quit and change nick
ChannelData ==
    {":me!u@h JOIN #a\r\n",
     ":x!u@h JOIN #a\r\n",
     "@+typing=active :x!u@h TAGMSG #a\r\n",
     ":x!u@h PART #a\r\n",
     ":y!u@h KICK #a x :out\r\n",
     ":x!u@h QUIT :bye\r\n",
     ":x!u@h NICK y\r\n",
     ":x!u@h NICK x\r\n",
     ":me!u@h PART #a\r\n",
     ":x!u@h MODE #zz +o x\r\n",
     ":me!u@h JOIN #a\r\n:me!u@h JOIN #b\r\n:x!u@h JOIN #a\r\n:y!u@h JOIN #b\r\n"}

ChannelReceived == \E data \in ChannelData : data_received(data, MaxChannelPushes)

InitChannel == InitWith({ConfigNoSasl})
NextChannel == notify_connection_established \/ ChannelReceived \/ connection_lost
SpecChannel == InitChannel /\ [][NextChannel]_vars

\* the interface of IRCClient alone: data handed to the instance before and
\* after notify_connection_closed
ClosedData == {"PING :x\r\n", ":me!u@h JOIN #a\r\n", ":c!u@h NOTICE #a :three\r\n", "A"}

ClosedReceived == \E data \in ClosedData : add_received_data_called(data, MaxClosedPushes)

InitClosed == InitWith({ConfigNoSasl})
NextClosed == notify_connection_established \/ ClosedReceived \/ connection_lost
SpecClosed == InitClosed /\ [][NextClosed]_vars

\* member prefixes: the PREFIX token of 005, the names of 353/366, JOIN and
\* the MODE changes of members
PrefixData ==
    {":me!u@h JOIN #a\r\n",
     ":x!u@h JOIN #a\r\n",
     ":srv 005 me PREFIX=(ov)@+ :are supported\r\n",
     ":srv 005 me PREFIX=(vo)+@ :are supported\r\n",
     ":srv 353 me = #a :@+x y\r\n:srv 366 me #a :End\r\n",
     ":s!u@h MODE #a +v y\r\n",
     ":s!u@h MODE #a -o x\r\n"}

PrefixReceived == \E data \in PrefixData : data_received(data, MaxPrefixPushes)

InitPrefix == InitWith({ConfigNoSasl})
NextPrefix == notify_connection_established \/ PrefixReceived \/ connection_lost
SpecPrefix == InitPrefix /\ [][NextPrefix]_vars

\* modes: the PREFIX and CHANMODES tokens of 005, the names of a channel, MODE
\* changes of the channel, of its members and of the user of the client
ModeData ==
    {":srv 005 me PREFIX=(ov)@+ CHANMODES=b,k,l,n :are supported\r\n"
        \o ":me!u@h JOIN #a\r\n"
        \o ":srv 353 me = #a :+@z @b @a +c w\r\n:srv 366 me #a :End\r\n",
     ":srv 005 me PREFIX=(o)@ :are supported\r\n",
     ":s!u@h MODE #a +n\r\n",
     ":s!u@h MODE #a -n\r\n",
     ":s!u@h MODE #a +k key\r\n",
     ":s!u@h MODE #a -k key\r\n",
     ":s!u@h MODE #a +l 5\r\n",
     ":s!u@h MODE #a -l\r\n",
     ":s!u@h MODE #a +b m\r\n",
     ":s!u@h MODE #a +z\r\n",
     ":s!u@h MODE #a +nz\r\n",
     ":s!u@h MODE #a +o w\r\n",
     ":s!u@h MODE #a -o b\r\n",
     ":s!u@h MODE #a +bn-l m\r\n",
     ":s!u@h MODE #a -lo+k a key\r\n",
     ":me!u@h MODE me +i\r\n",
     ":me!u@h MODE me -i\r\n",
     ":me!u@h MODE me +ow-k\r\n"}

ModeReceived == \E data \in ModeData : data_received(data, MaxModePushes)

InitMode == InitWith({ConfigNoSasl})
NextMode == notify_connection_established \/ ModeReceived \/ connection_lost
SpecMode == InitMode /\ [][NextMode]_vars


\* presence: the channels the client and other users join with or without
\* away-notify, the away notifications for the client and for the others, and
\* a user who types in a channel and quits
PresenceData ==
    {":srv CAP * LS :away-notify\r\n",
     ":me!u@h JOIN #a\r\n",
     ":me!u@h JOIN #b\r\n",
     ":x!u@h JOIN #a\r\n",
     ":x!u@h JOIN #b\r\n",
     ":x!u@h AWAY :gone\r\n",
     ":x!u@h AWAY\r\n",
     ":y!u@h AWAY :gone\r\n",
     "@+typing=active :x!u@h TAGMSG #a\r\n",
     ":x!u@h QUIT :bye\r\n",
     ":y!u@h QUIT :bye\r\n",
     ":srv 306 me :You have been marked as being away\r\n",
     ":srv 305 me :You are no longer marked as being away\r\n",
     ":me!u@h JOIN #a\r\n:me!u@h JOIN #b\r\n:x!u@h JOIN #b\r\n:x!u@h JOIN #a\r\n"}

PresenceReceived == \E data \in PresenceData : data_received(data, MaxPresencePushes)

InitPresence == InitWith({ConfigNoSasl})
NextPresence == notify_connection_established \/ PresenceReceived \/ connection_lost
SpecPresence == InitPresence /\ [][NextPresence]_vars

\* names: the 353 replies of two channels, in several lines and with prefixes,
\* and the 366 that ends the listing of the first channel
NamesData ==
    {":srv 005 me PREFIX=(ov)@+ :are supported\r\n:me!u@h JOIN #a\r\n:me!u@h JOIN #b\r\n",
     ":srv 353 me = #a :@x +y\r\n",
     ":srv 353 me = #a :me z\r\n",
     ":srv 353 me @ #b :@+w\r\n",
     ":srv 366 me #a :End of /NAMES list.\r\n"}

NamesReceived == \E data \in NamesData : data_received(data, MaxNamesPushes)

InitNames == InitWith({ConfigNoSasl})
NextNames == notify_connection_established \/ NamesReceived \/ connection_lost
SpecNames == InitNames /\ [][NextNames]_vars

\* typing status: the TAGMSG +typing of a member with every status and with
\* an unknown one, of a user who is not a member, the messages of the member,
\* and the clock
StatusData ==
    {":me!u@h JOIN #a\r\n:x!u@h JOIN #a\r\n",
     "@+typing=active :x!u@h TAGMSG #a\r\n",
     "@+typing=paused :x!u@h TAGMSG #a\r\n",
     "@+typing=done :x!u@h TAGMSG #a\r\n",
     "@+typing=bogus :x!u@h TAGMSG #a\r\n",
     "@+typing=active :y!u@h TAGMSG #a\r\n",
     ":x!u@h PRIVMSG #a :hi\r\n",
     ":x!u@h NOTICE me :hi\r\n"}

StatusReceived == \E data \in StatusData : data_received(data, MaxStatusPushes)
StatusTick == tick(MaxStatusTime)

InitStatus == InitWith({ConfigNoSasl})
NextStatus == notify_connection_established \/ StatusReceived \/ StatusTick \/ connection_lost
SpecStatus == InitStatus /\ [][NextStatus]_vars

\* typing notifications: received for the members of a channel, sent by the
\* host for the user of the client
TypingData ==
    {":me!u@h JOIN #a\r\n:x!u@h JOIN #a\r\n",
     ":x!u@h JOIN #a\r\n",
     "@+typing=active :x!u@h TAGMSG #a\r\n",
     "@+typing=paused :x!u@h TAGMSG #a\r\n",
     "@+typing=active :me!u@h TAGMSG #a\r\n",
     ":x!u@h PRIVMSG #a :hi\r\n",
     ":me!u@h PRIVMSG #a :hi\r\n",
     ":x!u@h PART #a\r\n",
     ":x!u@h QUIT :bye\r\n",
     ":srv 353 me = #a :me x\r\n:srv 366 me #a :End\r\n"}

TypingChannels == {"#a", "#zz"}

TypingReceived == \E data \in TypingData : data_received(data, MaxTypingPushes)
TypingSentActive == \E channel_name \in TypingChannels : sent_active_typing_update(channel_name)
TypingSentDone == \E channel_name \in TypingChannels : sent_done_typing_update(channel_name)

InitTyping == InitWith({ConfigNoSasl})
NextTyping ==
    \/ notify_connection_established
    \/ TypingReceived
    \/ connection_lost
    \/ TypingSentActive
    \/ TypingSentDone
SpecTyping == InitTyping /\ [][NextTyping]_vars

\* messages dispatched one by one: PING, PRIVMSG and NOTICE to the client and
\* to a channel, before and after the client changes its nick, and the WHO
\* replies with and without the capability away-notify
MessageData ==
    {"PING :x y\r\n",
     "PING a b\r\n",
     "PING\r\n",
     ":srv CAP * LS :away-notify\r\n",
     ":me!u@h JOIN #a\r\n",
     ":me!u@h NICK me2\r\n",
     ":x!u@h PRIVMSG me :hi\r\n",
     ":x!u@h PRIVMSG me2 :hi\r\n",
     ":x!u@h PRIVMSG #a :hi\r\n",
     ":srv NOTICE me :hi\r\n",
     ":srv 352 me #a u h srv x G :0 r\r\n",
     ":srv 352 me #a u h srv x H :0 r\r\n",
     ":srv 352 me #b u h srv x G :0 r\r\n"}

MessageReceived == \E data \in MessageData : data_received(data, MaxMessagePushes)

InitMessage == InitWith({ConfigNoSasl})
NextMessage == notify_connection_established \/ MessageReceived \/ connection_lost
SpecMessage == InitMessage /\ [][NextMessage]_vars

\* the typing notifications of the client over time: the client joins #a, with
\* or without the capability message-tags, and its own message is echoed
ClockData ==
    {":srv CAP * LS :message-tags echo-message\r\n:me!u@h JOIN #a\r\n",
     ":me!u@h JOIN #a\r\n",
     ":me!u@h PRIVMSG #a :hi\r\n"}

ClockChannels == {"#a", "#zz"}

ClockReceived == \E data \in ClockData : data_received(data, MaxClockPushes)
ClockSentActive == \E channel_name \in ClockChannels : sent_active_typing_update(channel_name)
ClockSentDone == \E channel_name \in ClockChannels : sent_done_typing_update(channel_name)
ClockTick == tick(MaxTime)

InitClock == InitWith({ConfigNoSasl})
NextClock ==
    \/ notify_connection_established
    \/ ClockReceived
    \/ connection_lost
    \/ ClockSentActive
    \/ ClockSentDone
    \/ ClockTick
SpecClock == InitClock /\ [][NextClock]_vars

\* the parser: lines with every source made of at most MaxSourceLen of the
\* characters a, ! and @, and lines with parameters of every form
RECURSIVE Words(_, _)
Words(alphabet, n) ==
    IF n = 0 THEN {""}
    ELSE Words(alphabet, n - 1) \cup
         {w \o a : w \in Words(alphabet, n - 1), a \in alphabet}

ParseSources == Words({"a", "!", "@"}, MaxSourceLen) \ {""}

ParseBodies ==
    {"FOO", "foo a", "FOO a b", "FOO :a b", "FOO a :", "FOO a  b", "FOO a :b :c", "FOO a:b"}

ParseData ==
    {":" \o source \o " FOO p" \o CRLF : source \in ParseSources}
    \cup {prefix \o body \o CRLF : prefix \in {"", "@t=1 ", ":n!u@h "}, body \in ParseBodies}

ParseReceived == \E data \in ParseData : data_received(data, MaxParsePushes)

InitParse == InitWith({ConfigNoSasl})
NextParse == notify_connection_established \/ ParseReceived \/ connection_lost
SpecParse == InitParse /\ [][NextParse]_vars

\* tags: lines with one tag whose value is the escaped form of every string
\* of at most MaxTagValueLen of the characters ; space \ CR LF s r n
TagValues == Words({";", " ", "\\", "\r", "\n", "s", "r", "n"}, MaxTagValueLen)

\* the escaping of the values of tags of IRCv3, the inverse of which
\* TAG_VALUE_ESCAPE is to be
RECURSIVE EscapeTagValue(_)
EscapeTagValue(value) ==
    IF value = "" THEN ""
    ELSE LET ch == SubSeq(value, 1, 1)
         IN  (CASE ch = ";" -> "\\:"
                [] ch = " " -> "\\s"
                [] ch = "\\" -> "\\\\"
                [] ch = "\r" -> "\\r"
                [] ch = "\n" -> "\\n"
                [] OTHER -> ch)
             \o EscapeTagValue(Tail(value))

TagLine(value) == "@k=" \o EscapeTagValue(value) \o " FOO" \o CRLF

TagData == {TagLine(value) : value \in TagValues}

TagReceived == \E data \in TagData : data_received(data, MaxTagPushes)

InitTag == InitWith({ConfigNoSasl})
NextTag == notify_connection_established \/ TagReceived \/ connection_lost
SpecTag == InitTag /\ [][NextTag]_vars

(***************************************************************************)
(* Vocabulary of the properties.                                           *)
(***************************************************************************)
\* the byte stream received so far
Stream == Join(pushes, "")

\* the step is a call of add_received_data
IsPush == Len(pushes') = Len(pushes) + 1

\* the data of that call
Pushed == pushes'[Len(pushes')]

\* the step is a call of add_received_data with exactly the line (no CRLF in
\* it) followed by CRLF, the receive buffer being empty
IsPushOfLine(line) == IsPush /\ recv_buffer = "" /\ Pushed = line \o CRLF

\* the step pushes one whole line, which is Line
IsPushOfOneLine ==
    /\ IsPush /\ recv_buffer = ""
    /\ EndsWith(Pushed, CRLF)
    /\ Cardinality(Occurrences(Pushed, CRLF)) = 1

\* the line of such a step, and its message
PushedLine == SliceTo(Pushed, -2)
PushedMessage == parse_message(PushedLine)

\* what the step appends to the outbox, the inbox, the parsed lines
NewOut == SubSeq(outbox', Len(outbox) + 1, Len(outbox'))
NewEvents == SubSeq(inbox', Len(inbox) + 1, Len(inbox'))
NewParsed == SubSeq(parsed', Len(parsed) + 1, Len(parsed'))

\* the step leaves the client's model of the network, its handshake and its
\* MOTD buffer alone
KeepsNetworkState ==
    UNCHANGED <<capabilities, supported, member_prefixes, channel_modes, name, nick,
                channels, users, heap, tmp_channel_nicks, tmp_motd, handshake_steps,
                server_connection, config>>

Range(seq) == {seq[i] : i \in 1..Len(seq)}

\* the lines the handshake driver sends after the first three
IsHandshakeLine(payload) ==
    \/ StartsWith(payload, "CAP REQ") \/ StartsWith(payload, "CAP END")
    \/ StartsWith(payload, "AUTHENTICATE") \/ StartsWith(payload, "JOIN")

\* a step with the given predicate is pending
Pending(fence) == \E i \in 1..Len(handshake_steps) : handshake_steps[i].fence = fence

(***************************************************************************)
(* C1: framing is split-invariant: from any state, pushing b1 then b2      *)
(* puts the same events on the inbox as pushing b1 ++ b2 at once.          *)
(* Refuted: a push that leaves the buffer without CRLF dispatches the      *)
(* buffered partial line as a message.                                     *)
(***************************************************************************)
SplitData == {"A\r\nb\r\nC", "b\r\n"}

PushTwice(c, b, k) ==
    LET first == add_received_data(c, SliceTo(b, k))
    IN  IF first.raised THEN first ELSE add_received_data(first, SliceFrom(b, k))

C1_SplitInvariant ==
    (transport = "open" /\ ~raised) =>
        \A b \in SplitData : \A k \in 1..(Len(b) - 1) :
            PushTwice(Self, b, k).inbox = add_received_data(Self, b).inbox

(***************************************************************************)
(* C2: every CRLF-terminated line of the stream is handed to the parser    *)
(* exactly once, in stream order, and nothing else is: the lines parsed    *)
(* are the lines of the stream that a CRLF ends, as many as the CRLFs      *)
(* received.  Refuted by the same partial-line dispatch.                   *)
(***************************************************************************)
CompleteLines(stream) ==
    LET parts == Split(stream, CRLF) IN SubSeq(parts, 1, Len(parts) - 1)

C2_OneMessagePerLine ==
    /\ Len(parsed) = Cardinality(Occurrences(Stream, CRLF))
    /\ parsed = CompleteLines(Stream)

(***************************************************************************)
(* C3: when the receive buffer (with the pushed data) holds a CRLF,        *)
(* parse_received yields one message per line before the last CRLF, in     *)
(* order, an empty line giving a message with the empty command, and       *)
(* leaves exactly the bytes after the last CRLF in the buffer.             *)
(***************************************************************************)
RECURSIVE Terminated(_)
Terminated(lines) ==
    IF lines = <<>> THEN "" ELSE Head(lines) \o CRLF \o Terminated(Tail(lines))

C3_ParseReceived ==
    [][(IsPush /\ Contains(recv_buffer \o Pushed, CRLF)) =>
          /\ recv_buffer \o Pushed = Terminated(NewParsed) \o recv_buffer'
          /\ ~Contains(recv_buffer', CRLF)
          /\ \A i \in 1..Len(NewParsed) : ~Contains(NewParsed[i], CRLF)
          /\ Len(NewEvents) = Len(NewParsed)
          /\ \A i \in 1..Len(NewParsed) :
                /\ NewEvents[i].type = "Message"
                /\ NewEvents[i].command = Upper(NewParsed[i])
                /\ NewEvents[i].params = <<>>
                /\ NewEvents[i].origin = nlines + i
          /\ nlines' = nlines + Len(NewParsed)]_vars

C3_Witness ==
    /\ pushes = <<"\r", "\n", "A\r\nb\r\nC">>
    /\ parsed = <<"\r", "", "A", "b">>
    /\ recv_buffer = "C"
    /\ inbox[2].command = ""

(***************************************************************************)
(* C4: with SASL configured and sasl advertised by the CAP LS reply, the   *)
(* final CAP LS message makes the client send CAP REQ :sasl and            *)
(* AUTHENTICATE PLAIN and not CAP END, the next AUTHENTICATE + makes it    *)
(* send the AUTHENTICATE payload, and CAP END is sent only once a 903 has  *)
(* been received after that.  Refuted: _hanshake_start chooses the step    *)
(* that follows CAP LS when self.capabilities is still empty.              *)
(***************************************************************************)
CapEnd == "CAP END" \o CRLF

C4_SaslBeforeCapEnd ==
    [][(SaslConfigured(config) /\ IsPush) =>
          /\ (Pending("is_capabilities_received") /\ ~Pending("is_capabilities_received")'
              /\ "sasl" \in DOMAIN capabilities')
                => NewOut = <<"CAP REQ :sasl" \o CRLF, "AUTHENTICATE PLAIN" \o CRLF>>
          /\ (Pending("is_authenticate_plus_received")
              /\ ~Pending("is_authenticate_plus_received")')
                => NewOut = <<"AUTHENTICATE "
                               \o get_sasl_plain_payload(config.sasl[1].user,
                                                         config.sasl[1].password)
                               \o CRLF>>
          /\ (CapEnd \in Range(NewOut) /\ "sasl" \in DOMAIN capabilities')
                => (Pending("is_903_received") /\ ~Pending("is_903_received")')]_vars

(***************************************************************************)
(* C5: for every message received through add_received_data, whatever the  *)
(* number of events of its dispatch, each pending handshake pair whose     *)
(* predicate matches the message is removed from the queue and its action  *)
(* is executed once.  Refuted: the pairs are examined once per event put   *)
(* on the inbox, so not at all for a message that yields no event.         *)
(***************************************************************************)
C5_MatchingStepRuns ==
    [][IsPushOfOneLine =>
          \A i \in 1..Len(handshake_steps) :
              StepFence(handshake_steps[i].fence, PushedMessage) =>
                  /\ handshake_steps[i] \notin Range(handshake_steps')
                  /\ Len(NewOut) > 0]_vars

(***************************************************************************)
(* C6: notify_connection_established sends CAP LS 302, NICK <nick>,        *)
(* USER <user> 0 * :<real_name>, in this order and nothing else; the       *)
(* handshake sends no CAP REQ, CAP END, AUTHENTICATE or JOIN before a      *)
(* final CAP LS reply (CAP, three parameters, the second LS) was           *)
(* received, and a CAP * LS * continuation (four parameters) leaves the    *)
(* handshake where it is.                                                  *)
(***************************************************************************)
FirstLines ==
    <<"CAP LS 302" \o CRLF,
      "NICK " \o config.nick \o CRLF,
      "USER " \o config.user \o " 0 * :" \o config.real_name \o CRLF>>

IsFinalCapLs(e) ==
    e.type = "Message" /\ e.command = "CAP" /\ Len(e.params) = 3 /\ e.params[2] = "LS"

Continuation == "CAP * LS * :batch sasl"

C6_HandshakeStart ==
    /\ [](transport = "connecting" => outbox = <<>>)
    /\ [](transport /= "connecting" => SubSeq(outbox, 1, 3) = FirstLines)
    /\ []((\E i \in 4..Len(outbox) : IsHandshakeLine(outbox[i]))
            => \E j \in 1..Len(inbox) : IsFinalCapLs(inbox[j]))
    /\ [][transport = "connecting" /\ transport' = "open" => outbox' = FirstLines]_vars
    /\ [][(IsPushOfOneLine /\ PushedMessage.command = "CAP"
           /\ Len(PushedMessage.params) = 4)
            => (handshake_steps' = handshake_steps /\ outbox' = outbox)]_vars

C6_Witness ==
    /\ pushes = <<Continuation \o CRLF>>
    /\ outbox = FirstLines
    /\ Pending("is_capabilities_received")
    /\ "batch" \in DOMAIN capabilities

(***************************************************************************)
(* C7: capability negotiation sends CAP REQ :<name> for exactly the        *)
(* capabilities among message-tags, echo-message, server-time, batch,      *)
(* away-notify, multi-prefix that are in the capabilities accumulated      *)
(* from all the CAP LS replies, in that order, then one CAP END; CAP END   *)
(* is sent at most once per connection, and these capabilities are         *)
(* requested at no other time.                                             *)
(***************************************************************************)
ListedCapabilities ==
    <<"message-tags", "echo-message", "server-time", "batch", "away-notify", "multi-prefix">>

Requests(caps) ==
    LET wanted == SelectSeq(ListedCapabilities, LAMBDA n : n \in caps)
    IN  [i \in 1..Len(wanted) |-> "CAP REQ :" \o wanted[i] \o CRLF]

IsListedRequest(payload) ==
    \E i \in 1..Len(ListedCapabilities) : payload = "CAP REQ :" \o ListedCapabilities[i] \o CRLF

C7_Negotiation ==
    /\ [](Cardinality({i \in 1..Len(outbox) : outbox[i] = CapEnd}) <= 1)
    /\ [][(CapEnd \in Range(NewOut))
            => NewOut = Requests(DOMAIN capabilities') \o <<CapEnd>>]_vars
    /\ [][(CapEnd \notin Range(NewOut))
            => \A i \in 1..Len(NewOut) : ~IsListedRequest(NewOut[i])]_vars

C7_Witness ==
    /\ pushes = <<Continuation \o CRLF, ":srv CAP * LS :server-time sasl=PLAIN" \o CRLF>>
    /\ outbox = FirstLines \o <<"CAP REQ :server-time" \o CRLF, "CAP REQ :batch" \o CRLF, CapEnd>>

(***************************************************************************)
(* C8: the handshake sends JOIN lines when and only when a 001 message is  *)
(* processed after CAP END was sent: that push sends one JOIN <channel>    *)
(* per configured channel, in the configured order, and no JOIN is sent    *)
(* at any other time (not by a second 001, not before CAP END).  Refuted:  *)
(* a 001 held in an open batch yields no event, so the pending step is     *)
(* not run for it (C5), and a later 001 sends the JOIN lines.              *)
(***************************************************************************)
Joins == [i \in 1..Len(config.channels) |-> "JOIN " \o config.channels[i] \o CRLF]

IsJoin(payload) == StartsWith(payload, "JOIN ")

\* a 001 message has been received since CAP END was sent (ghost of the
\* formula: the lines received after the push that sent CAP END)
First001AfterCapEnd ==
    /\ IsPushOfOneLine
    /\ PushedMessage.command = "001"
    /\ CapEnd \in Range(outbox)
    /\ ~\E i \in 1..Len(outbox) : IsJoin(outbox[i])

C8_JoinOn001 ==
    /\ [][First001AfterCapEnd => NewOut = Joins]_vars
    /\ [][(IsPush /\ ~First001AfterCapEnd)
            => \A i \in 1..Len(NewOut) : ~IsJoin(NewOut[i])]_vars

(***************************************************************************)
(* C9: a message other than BATCH whose batch tag names an open batch is   *)
(* appended to that batch, yields no event, sends nothing and changes no   *)
(* other state; when BATCH -id arrives the messages of the batch are       *)
(* dispatched in the order they were received, their events following      *)
(* each other in that order.                                               *)
(***************************************************************************)
IsHeldByBatch ==
    /\ IsPushOfOneLine
    /\ PushedMessage.command /= "BATCH"
    /\ "batch" \in DOMAIN PushedMessage.tags
    /\ PushedMessage.tags["batch"] \in DOMAIN tmp_batches

YieldsNewMessageEvent(m) == m.command \in {"NOTICE", "PRIVMSG"}

C9_BatchHoldsAndReleases ==
    /\ [][IsHeldByBatch =>
             /\ tmp_batches' =
                   [tmp_batches EXCEPT ![PushedMessage.tags["batch"]] =
                       Append(@, PushedMessage @@ [origin |-> nlines + 1])]
             /\ inbox' = inbox
             /\ outbox' = outbox
             /\ ~raised'
             /\ KeepsNetworkState]_vars
    /\ [][(IsPushOfLine("BATCH -1") /\ "1" \in DOMAIN tmp_batches) =>
             LET expected == SelectSeq(tmp_batches["1"], YieldsNewMessageEvent)
                 pings == SelectSeq(tmp_batches["1"], LAMBDA m : m.command = "PING")
             IN  /\ "1" \notin DOMAIN tmp_batches'
                 /\ Len(NewEvents) = Len(expected)
                 /\ \A i \in 1..Len(expected) :
                       /\ NewEvents[i].type = "NewMessageEvent"
                       /\ NewEvents[i].origin = expected[i].origin
                       /\ NewEvents[i].message = expected[i].params[2]
                 /\ NewOut = [i \in 1..Len(pings) |-> "PONG :x" \o CRLF]]_vars

C9_Witness ==
    /\ pushes = <<"BATCH +1" \o CRLF,
                  "@batch=1 :a!u@h NOTICE #a :one" \o CRLF,
                  "@batch=1 :b!u@h PRIVMSG #a :two" \o CRLF,
                  "BATCH -1" \o CRLF>>
    /\ Len(inbox) = 2
    /\ inbox[1].message = "one" /\ inbox[2].message = "two"
    /\ tmp_batches = EmptyDict

(***************************************************************************)
(* C10: for any two input lines L1 before L2, every event derived from L1  *)
(* is put on the inbox before every event derived from L2, also for lines  *)
(* tagged with an open batch id and for 372 lines.  Refuted: the events    *)
(* of such lines are put on the inbox when BATCH -id or 376 is processed,  *)
(* after the events of the lines received in between.                      *)
(***************************************************************************)
HasOrigin(e) == "origin" \in DOMAIN e

IsChannel(channel_name) == ODHas(channels, channel_name)
IsMember(channel_name, who) == HasMember(Self, channel_name, who)
TheMember(channel_name, who) == GetMember(Self, channel_name, who)

\* the names of the known channels
KnownChannels == {channels[i][1] : i \in 1..Len(channels)}

\* the step pushes one whole line that is a message of one of the commands
IsPushOfCommand(commands) == IsPushOfOneLine /\ PushedMessage.command \in commands

\* the events of the step that have the given type
EventsOfType(type) == {i \in 1..Len(NewEvents) : NewEvents[i].type = type}

(***************************************************************************)
(* C11: when a user who is typing in a channel leaves it through PART,     *)
(* KICK or QUIT, a ChannelTypingEvent for that channel is emitted          *)
(* immediately before the ChannelPartEvent, ChannelKickEvent or QuitEvent. *)
(* Refuted: _process_kick_message pops the member and emits only the       *)
(* ChannelKickEvent.                                                       *)
(***************************************************************************)
\* the user who leaves with the message, and the event that tells it
Leaver(msg) == IF msg.command = "KICK" THEN msg.params[2] ELSE msg.source.nick

DepartureEvent(msg) ==
    CASE msg.command = "PART" -> "ChannelPartEvent"
      [] msg.command = "KICK" -> "ChannelKickEvent"
      [] msg.command = "QUIT" -> "QuitEvent"

\* the channels the message makes its user leave
LeftChannels(msg) ==
    IF msg.command = "QUIT" THEN {ch \in KnownChannels : IsMember(ch, Leaver(msg))}
    ELSE {ch \in {msg.params[1]} : IsMember(ch, Leaver(msg))}

\* the step is a well-formed PART, KICK or QUIT
IsDeparture ==
    /\ IsPushOfCommand({"PART", "KICK", "QUIT"})
    /\ Len(PushedMessage.params) >= (IF PushedMessage.command = "KICK" THEN 3 ELSE 1)

\* the typing event of the channel comes just before its departure event
TypingEventJustBefore(ch, type) ==
    \E i \in 2..Len(NewEvents) :
        /\ NewEvents[i].type = type /\ NewEvents[i].channel = ch
        /\ NewEvents[i - 1].type = "ChannelTypingEvent" /\ NewEvents[i - 1].channel = ch

C11_TypingEventBeforeDeparture ==
    [][IsDeparture =>
          \A ch \in LeftChannels(PushedMessage) :
              TheMember(ch, Leaver(PushedMessage)).is_typing
                  => TypingEventJustBefore(ch, DepartureEvent(PushedMessage))]_vars

(***************************************************************************)
(* C12: notify_connection_closed puts a ConnectionClosedEvent on the       *)
(* inbox, and that event is terminal: a call of add_received_data made     *)
(* afterwards puts no event on the inbox, sends no line and changes no     *)
(* field of the client.                                                    *)
(* Refuted: IRCClient keeps no record of the closure, add_received_data    *)
(* frames, parses and dispatches as before.                                *)
(***************************************************************************)
\* the fields of the IRCClient instance
ClientState ==
    <<config, server_connection, inbox, outbox, capabilities, supported,
      member_prefixes, channel_modes, name, nick, channels, users, heap,
      recv_buffer, tmp_channel_nicks, tmp_batches, tmp_motd, handshake_steps>>

\* the step is notify_connection_closed
IsClose == transport /= "closed" /\ transport' = "closed"

C12_ClosedIsTerminal ==
    [][/\ IsClose => NewEvents = <<[type |-> "ConnectionClosedEvent"]>>
       /\ (transport = "closed" /\ IsPush) => UNCHANGED ClientState]_vars

(***************************************************************************)
(* C13: whatever the sequence of received messages, dispatching each of    *)
(* them completes without an unhandled error: no call of                   *)
(* add_received_data ends by an exception.                                 *)
(* Refuted: the handlers index self.channels, channel.members and          *)
(* msg.params without a test; a JOIN of another user to a channel the      *)
(* client has not joined raises KeyError.                                  *)
(***************************************************************************)
C13_NoUnhandledError == raised = FALSE

(***************************************************************************)
(* C14: a MODE whose target is neither a known channel nor a known user,   *)
(* a TAGMSG +typing for an unknown channel or from a sender who is not a   *)
(* member of the channel, and a PART of a known channel by a nick that is  *)
(* not one of its members are ignored: the call completes, no event is     *)
(* emitted, no line is sent, channels, members and users are unchanged.    *)
(* Refuted: the PART of a non-member is not ignored, members.pop raises    *)
(* KeyError (the defect of C13).                                           *)
(***************************************************************************)
IsModeForUnknownTarget ==
    /\ IsPushOfCommand({"MODE"})
    /\ Len(PushedMessage.params) >= 2
    /\ ~IsChannel(PushedMessage.params[1])
    /\ PushedMessage.params[1] \notin DOMAIN users

IsTypingForUnknownMember ==
    /\ IsPushOfCommand({"TAGMSG"})
    /\ "+typing" \in DOMAIN PushedMessage.tags
    /\ PushedMessage.tags["+typing"] \in TypingStatus
    /\ Len(PushedMessage.params) >= 1
    /\ ~IsMember(PushedMessage.params[1], PushedMessage.source.nick)

IsPartOfNonMember ==
    /\ IsPushOfCommand({"PART"})
    /\ Len(PushedMessage.params) >= 1
    /\ IsChannel(PushedMessage.params[1])
    /\ ~IsMember(PushedMessage.params[1], PushedMessage.source.nick)

\* the call returns normally and has no effect
IsIgnored ==
    /\ ~raised'
    /\ NewEvents = <<>>
    /\ NewOut = <<>>
    /\ UNCHANGED <<channels, users, heap>>

C14_UnknownTargetsIgnored ==
    [][(IsModeForUnknownTarget \/ IsTypingForUnknownMember \/ IsPartOfNonMember)
          => IsIgnored]_vars

(***************************************************************************)
(* C15: after a JOIN whose source is the client's own nick, the channel    *)
(* is in channels; after a PART whose source is the client's own nick, it  *)
(* is not; a channel enters channels only by a JOIN of the client's own    *)
(* nick for that channel.                                                  *)
(***************************************************************************)
\* the step pushes one line, a message of that command from the client's nick
IsOwn(command) ==
    /\ IsPushOfCommand({command})
    /\ PushedMessage.source.nick = nick
    /\ Len(PushedMessage.params) >= 1

\* one of the lines the step dispatches is a JOIN of the client to the channel
DispatchesOwnJoin(channel_name) ==
    \E i \in 1..Len(NewParsed) :
        LET msg == parse_message(NewParsed[i])
        IN  /\ msg.command = "JOIN"
            /\ msg.source.nick = nick
            /\ Len(msg.params) >= 1 /\ msg.params[1] = channel_name

C15_ChannelsFollowOwnJoinAndPart ==
    [][/\ IsOwn("JOIN") => ODHas(channels', PushedMessage.params[1])
       /\ IsOwn("PART") => ~ODHas(channels', PushedMessage.params[1])
       /\ \A channel_name \in Range(ODKeys(channels')) :
              ~IsChannel(channel_name) => DispatchesOwnJoin(channel_name)]_vars

\* the client has joined #a and then parted it
C15_Witness ==
    /\ ~raised
    /\ Len(pushes) >= 2
    /\ pushes[Len(pushes) - 1] = ":me!u@h JOIN #a\r\n"
    /\ pushes[Len(pushes)] = ":me!u@h PART #a\r\n"
    /\ ~IsChannel("#a")
    /\ inbox[Len(inbox)].type = "ChannelPartEvent"

(***************************************************************************)
(* C16: after a NICK message from A to B, every channel that had A as a    *)
(* member key has B as a member key mapped to the same Member and, for     *)
(* A /= B, no key A any more; exactly one NickChangedEvent per such        *)
(* channel is emitted; users[B] is the moved user with source.nick = B;    *)
(* users has no entry for A.                                               *)
(* The last part holds for A /= B only: a NICK from A to A deletes and     *)
(* sets again the same entry of users.                                     *)
(***************************************************************************)
\* the step pushes one NICK line; its old and new nick
IsNick == IsPushOfCommand({"NICK"}) /\ Len(PushedMessage.params) >= 1
OldNick == PushedMessage.source.nick
NewNick == PushedMessage.params[1]

\* the members of the channel of that name after the step
MembersAfter(channel_name) == ODGet(channels', channel_name).members

\* the channels that have OldNick as a member are re-keyed
MembersAreRekeyed ==
    \A ch \in KnownChannels :
        IsMember(ch, OldNick) =>
            /\ ODHas(channels', ch)
            /\ ODHas(MembersAfter(ch), NewNick)
            /\ ODGet(MembersAfter(ch), NewNick) = TheMember(ch, OldNick)
            /\ OldNick /= NewNick => ~ODHas(MembersAfter(ch), OldNick)

\* one NickChangedEvent for each of them and no other event
OneEventPerChannel ==
    /\ \A i \in 1..Len(NewEvents) :
          /\ NewEvents[i].type = "NickChangedEvent"
          /\ NewEvents[i].old_nick = OldNick /\ NewEvents[i].new_nick = NewNick
          /\ IsMember(NewEvents[i].channel, OldNick)
    /\ \A ch \in KnownChannels :
          IsMember(ch, OldNick) =>
              Cardinality({i \in 1..Len(NewEvents) : NewEvents[i].channel = ch}) = 1

\* the user is moved in users
UserIsMoved ==
    /\ NewNick \in DOMAIN users'
    /\ OldNick \in DOMAIN users => users'[NewNick] = users[OldNick]
    /\ heap'[users'[NewNick]].source.nick = NewNick

C16_NickRekeys ==
    [][IsNick => /\ MembersAreRekeyed
                 /\ OneEventPerChannel
                 /\ UserIsMoved
                 /\ OldNick \notin DOMAIN users']_vars

C16_NickRekeysDistinct ==
    [][IsNick => /\ MembersAreRekeyed
                 /\ OneEventPerChannel
                 /\ UserIsMoved
                 /\ OldNick /= NewNick => OldNick \notin DOMAIN users']_vars

\* x, a member of #a, has become y
C16_Witness ==
    /\ ~raised
    /\ Len(pushes) >= 1
    /\ pushes[Len(pushes)] = ":x!u@h NICK y\r\n"
    /\ IsMember("#a", "y") /\ ~IsMember("#a", "x")
    /\ "y" \in DOMAIN users /\ "x" \notin DOMAIN users
    /\ heap[users["y"]].source.nick = "y"
    /\ inbox[Len(inbox)].type = "NickChangedEvent"

(***************************************************************************)
(* C17: for every member m stored under key k in the members of a          *)
(* channel, m.user.source.nick = k and m.user is the same entry as         *)
(* users[k], after any sequence of JOIN, PART, KICK, QUIT, NICK, 353/366   *)
(* and MODE, a NICK to a nick already in use included.                     *)
(* Refuted: a NICK to a nick in use replaces users[new_nick] by the moved  *)
(* user, the members of the former holder keep the replaced User.          *)
(***************************************************************************)
\* the member under that key is the user of that nick
IsUserOfKey(member, key) ==
    /\ heap[member.user].source.nick = key
    /\ key \in DOMAIN users
    /\ users[key] = member.user

C17_MembersAreUsers ==
    \A i \in 1..Len(channels) :
        \A j \in 1..Len(channels[i][2].members) :
            IsUserOfKey(channels[i][2].members[j][2], channels[i][2].members[j][1])

(***************************************************************************)
(* C18: for every member m of every channel, m.highest_prefix is the       *)
(* first symbol, in the order of member_prefixes.values(), that occurs in  *)
(* m.prefixes, or "" if none does, after any interleaving of 005 (PREFIX), *)
(* 353/366, JOIN and MODE.                                                 *)
(* Refuted: a 005 that changes PREFIX replaces member_prefixes and leaves  *)
(* the highest_prefix of the members as computed under the former order.   *)
(***************************************************************************)
\* the positions in member_prefixes of the symbols the prefixes contain
PrefixRanks(prefixes) ==
    {i \in 1..Len(member_prefixes) : Contains(prefixes, member_prefixes[i][2])}

IsHighestPrefix(symbol, prefixes) ==
    IF PrefixRanks(prefixes) = {} THEN symbol = ""
    ELSE \E i \in PrefixRanks(prefixes) :
            /\ symbol = member_prefixes[i][2]
            /\ \A j \in PrefixRanks(prefixes) : i <= j

C18_HighestPrefix ==
    \A i \in 1..Len(channels) :
        \A j \in 1..Len(channels[i][2].members) :
            IsHighestPrefix(channels[i][2].members[j][2].highest_prefix,
                            channels[i][2].members[j][2].prefixes)

(***************************************************************************)
(* C19: every member of every channel with is_typing = false has           *)
(* last_typing_update_at = None, whatever the sequence of TAGMSG,          *)
(* PRIVMSG, PART, QUIT, JOIN, 366 and of mark_sent_active_typing_update    *)
(* and mark_sent_done_typing_update.                                       *)
(***************************************************************************)
C19_NotTypingHasNoTime ==
    \A i \in 1..Len(channels) :
        \A j \in 1..Len(channels[i][2].members) :
            ~channels[i][2].members[j][2].is_typing
                => channels[i][2].members[j][2].last_typing_update_at = NoTime

\* x was typing in #a and has sent a message; the user of the client has
\* been typing in #a and no longer is
C19_Witness ==
    /\ ~raised
    /\ Len(pushes) >= 2
    /\ pushes[Len(pushes) - 1] = "@+typing=active :x!u@h TAGMSG #a\r\n"
    /\ pushes[Len(pushes)] = ":x!u@h PRIVMSG #a :hi\r\n"
    /\ inbox[Len(inbox)].type = "ChannelTypingEvent"
    /\ IsMember("#a", "x") /\ ~TheMember("#a", "x").is_typing
    /\ IsMember("#a", "me") /\ ~TheMember("#a", "me").is_typing
    /\ \E i \in 1..Len(inbox) :
          /\ inbox[i].type = "ChannelTypingEvent"
          /\ inbox[i].source.nick = "me"

(***************************************************************************)
(* C20: BATCH +id produces no event and opens the batch id.  After         *)
(* BATCH -id the id is no longer open, so a message received later with    *)
(* the tag batch=id is dispatched at once and not held; a second BATCH -id *)
(* produces no event.                                                      *)
(***************************************************************************)
\* the step pushes one line that is not a BATCH and carries the tag batch
\* with an id that is not open
IsTaggedWithClosedBatch ==
    /\ IsPushOfOneLine
    /\ PushedMessage.command /= "BATCH"
    /\ "batch" \in DOMAIN PushedMessage.tags
    /\ PushedMessage.tags["batch"] \notin DOMAIN tmp_batches

\* the message of the step is dispatched by the step
IsDispatchedAtOnce ==
    /\ tmp_batches' = tmp_batches
    /\ ~raised'
    /\ YieldsNewMessageEvent(PushedMessage) =>
          /\ Len(NewEvents) = 1
          /\ NewEvents[1].type = "NewMessageEvent"
          /\ NewEvents[1].message = PushedMessage.params[2]
          /\ NewEvents[1].origin = nlines + 1
    /\ PushedMessage.command = "PING" =>
          /\ NewEvents = <<>>
          /\ NewOut = <<"PONG :" \o PushedMessage.params[1] \o CRLF>>

C20_BatchOpensAndCloses ==
    [][/\ IsPushOfLine("BATCH +1") =>
             /\ NewEvents = <<>> /\ NewOut = <<>>
             /\ "1" \in DOMAIN tmp_batches' /\ tmp_batches'["1"] = <<>>
       /\ IsPushOfLine("BATCH -1") => "1" \notin DOMAIN tmp_batches'
       /\ (IsPushOfLine("BATCH -1") /\ "1" \notin DOMAIN tmp_batches) =>
             /\ NewEvents = <<>> /\ NewOut = <<>>
             /\ tmp_batches' = tmp_batches
       /\ IsTaggedWithClosedBatch => IsDispatchedAtOnce]_vars

\* the batch 1 was opened, closed, closed again, and a message tagged with it
\* then gave its event
C20_Witness ==
    /\ pushes = <<"BATCH +1" \o CRLF,
                  "BATCH -1" \o CRLF,
                  "BATCH -1" \o CRLF,
                  "@batch=1 :a!u@h NOTICE #a :one" \o CRLF>>
    /\ Len(inbox) = 1
    /\ inbox[1].type = "NewMessageEvent" /\ inbox[1].message = "one"
    /\ "1" \notin DOMAIN tmp_batches

(***************************************************************************)
(* C21: every dispatched PING message causes exactly one outbound PONG     *)
(* line carrying the same parameters in the same order, the last one as    *)
(* trailing parameter; it emits no event and leaves channels, users,       *)
(* capabilities and the handshake steps unchanged.                         *)
(***************************************************************************)
\* the line PONG with the parameters, the last one after a colon
RECURSIVE PongParams(_)
PongParams(params) ==
    IF Len(params) = 1 THEN " :" \o params[1]
    ELSE " " \o Head(params) \o PongParams(Tail(params))

PongLine(params) == (IF params = <<>> THEN "PONG" ELSE "PONG" \o PongParams(params)) \o CRLF

C21_PingPong ==
    [][IsPushOfCommand({"PING"}) =>
          /\ ~raised'
          /\ NewOut = <<PongLine(PushedMessage.params)>>
          /\ NewEvents = <<>>
          /\ UNCHANGED <<channels, users, heap, capabilities, handshake_steps>>]_vars

\* the client, in #a and with a handshake step pending, has answered PING a b
C21_Witness ==
    /\ ~raised
    /\ Len(pushes) >= 1
    /\ pushes[Len(pushes)] = "PING a b\r\n"
    /\ outbox[Len(outbox)] = "PONG a :b\r\n"
    /\ IsChannel("#a")
    /\ handshake_steps /= <<>>

(***************************************************************************)
(* C22: with message-tags in capabilities, a known channel and the client  *)
(* a member of it: after mark_sent_active_typing_update(channel) at time   *)
(* t, and as long as nothing clears the typing flag of the client,         *)
(* should_send_active_typing_update(channel) is false at every time from   *)
(* t to t + 3 seconds and true once more than 3 seconds have passed.       *)
(***************************************************************************)
\* the client is a member of the channel and message-tags is a capability
CanSendTyping(channel_name) ==
    /\ "message-tags" \in DOMAIN capabilities
    /\ IsMember(channel_name, nick)

\* the client is marked as typing in the channel since the time t
IsTypingSince(channel_name, t) ==
    /\ CanSendTyping(channel_name)
    /\ TheMember(channel_name, nick).is_typing
    /\ TheMember(channel_name, nick).last_typing_update_at = t

C22_TypingWindow ==
    [][\A channel_name \in ClockChannels :
          /\ (CanSendTyping(channel_name) /\ sent_active_typing_update(channel_name))
                => IsTypingSince(channel_name, now)'
          /\ \A t \in 0..MaxTime :
                IsTypingSince(channel_name, t)' =>
                    (should_send_active_typing_update(Self, channel_name)' <=> now' - t > 3)]_vars

\* more than 3 seconds after the mark the notification is due again
C22_Witness ==
    /\ IsTypingSince("#a", now - 4)
    /\ should_send_active_typing_update(Self, "#a")

(***************************************************************************)
(* C23: round trip on the structural fields: for every parsed message m,   *)
(* parsing the line that Message.to_bytes makes of m gives a message equal *)
(* to m in source, command and params.                                     *)
(* Refuted: to_bytes writes the command and the parameters only, the       *)
(* source of m is lost.                                                    *)
(***************************************************************************)
\* the message parsed from the line serialized from the message
RoundTrip(msg) == parse_message(to_bytes(msg))

SameStructure(m1, m2) ==
    /\ m1.source = m2.source
    /\ m1.command = m2.command
    /\ m1.params = m2.params

\* the step parses one line and hands its message to the dispatcher
IsParse == IsPushOfOneLine /\ NewParsed = <<PushedLine>>

C23_RoundTrip ==
    [][IsParse => SameStructure(RoundTrip(PushedMessage), PushedMessage)]_vars

(***************************************************************************)
(* C25: parse_message_source splits a source into nick, user and host      *)
(* exactly when it contains both ! and @; for every other non-empty        *)
(* source (neither of them, or only one, as a@b) the whole string is the   *)
(* host and nick and user are empty; raw is always the full input.         *)
(* Refuted: for a source with @ and without !, the host is the part after  *)
(* the @.                                                                  *)
(***************************************************************************)
\* the source written in the line of the step, "" if it has none
PushedSource ==
    IF StartsWith(PushedLine, ":") THEN Slice(PushedLine, 1, Find(PushedLine, " ")) ELSE ""

\* the Source of the event the step emits for the line
EmittedSource == NewEvents[1].source

\* nick!user@host
IsSplit(source, raw) ==
    /\ source.nick = SliceTo(raw, Find(raw, "!"))
    /\ source.user = Slice(raw, Find(raw, "!") + 1, Find(raw, "@"))
    /\ source.host = SliceFrom(raw, Find(raw, "@") + 1)

IsHostOnly(source, raw) ==
    /\ source.nick = ""
    /\ source.user = ""
    /\ source.host = raw

C25_SourceSplit ==
    [][(IsParse /\ PushedSource /= "" /\ Len(NewEvents) = 1) =>
          /\ EmittedSource.source = PushedSource
          /\ IF Contains(PushedSource, "!") /\ Contains(PushedSource, "@")
             THEN IsSplit(EmittedSource, PushedSource)
             ELSE IsHostOnly(EmittedSource, PushedSource)]_vars

(***************************************************************************)
(* C26: a PRIVMSG or NOTICE whose target is the client's current nick      *)
(* (the configured one, or the one of its last own NICK change) yields a   *)
(* NewMessageEvent whose channel is the nick of the source, or its host    *)
(* when the nick is empty; with any other target the channel is the        *)
(* target.                                                                 *)
(***************************************************************************)
\* the channel of the event of the pushed PRIVMSG or NOTICE, when the client's
\* nick is self_nick
DirectMessageChannel(self_nick) ==
    IF PushedMessage.params[1] = self_nick
    THEN (IF PushedMessage.source.nick /= "" THEN PushedMessage.source.nick
          ELSE PushedMessage.source.host)
    ELSE PushedMessage.params[1]

C26_DirectMessageChannel ==
    [][(IsPushOfCommand({"PRIVMSG", "NOTICE"}) /\ Len(PushedMessage.params) = 2) =>
          /\ Len(NewEvents) = 1
          /\ NewEvents[1].type = "NewMessageEvent"
          /\ NewEvents[1].channel = DirectMessageChannel(nick)]_vars

\* the same with the configured nick in place of the current one
C26_ConfiguredNick ==
    [][(IsPushOfCommand({"PRIVMSG", "NOTICE"}) /\ Len(PushedMessage.params) = 2) =>
          /\ Len(NewEvents) = 1
          /\ NewEvents[1].type = "NewMessageEvent"
          /\ NewEvents[1].channel = DirectMessageChannel(config.nick)]_vars

\* the client has taken the nick me2 and has then received a message for me2
C26_Reached ==
    /\ nick = "me2"
    /\ Len(pushes) >= 2
    /\ pushes[Len(pushes)] = ":x!u@h PRIVMSG me2 :hi\r\n"
    /\ Len(inbox) >= 1
    /\ inbox[Len(inbox)].type = "NewMessageEvent"

(***************************************************************************)
(* C28: a 352 reply updates users[nick].is_away (true for the flag G,      *)
(* false for H) only when away-notify is among the capabilities and the    *)
(* channel is known, and then emits no event; in every other case the      *)
(* message is passed through as one generic Message event and the is_away  *)
(* of no user changes.                                                     *)
(***************************************************************************)
IsWhoReply == IsPushOfCommand({"352"}) /\ Len(PushedMessage.params) >= 7

\* the client tracks the away status through the reply
TracksAway == "away-notify" \in DOMAIN capabilities /\ IsChannel(PushedMessage.params[2])

\* the step leaves the is_away of every user alone, and a user it creates is
\* not away
KeepsAway ==
    /\ \A k \in DOMAIN users :
          k \in DOMAIN users' /\ heap'[users'[k]].is_away = heap[users[k]].is_away
    /\ \A k \in DOMAIN users' \ DOMAIN users : ~heap'[users'[k]].is_away

PassesThrough ==
    /\ ~raised'
    /\ Len(NewEvents) = 1
    /\ NewEvents[1].type = "Message"
    /\ NewEvents[1].command = PushedMessage.command

C28_WhoReply ==
    [][IsWhoReply =>
          IF TracksAway
          THEN /\ ~raised'
               /\ NewEvents = <<>>
               /\ PushedMessage.params[6] \in DOMAIN users'
               /\ heap'[users'[PushedMessage.params[6]]].is_away
                     = (PushedMessage.params[7] = "G")
          ELSE PassesThrough /\ KeepsAway]_vars

\* the half of it about the replies the client tracks
C28_TrackedReply ==
    [][(IsWhoReply /\ TracksAway) =>
          /\ ~raised'
          /\ NewEvents = <<>>
          /\ PushedMessage.params[6] \in DOMAIN users'
          /\ heap'[users'[PushedMessage.params[6]]].is_away
                = (PushedMessage.params[7] = "G")]_vars

\* without away-notify, a reply has set a user away
C28_Reached ==
    /\ "away-notify" \notin DOMAIN capabilities
    /\ Len(pushes) >= 1
    /\ pushes[Len(pushes)] = ":srv 352 me #a u h srv x G :0 r\r\n"
    /\ "x" \in DOMAIN users
    /\ heap[users["x"]].is_away
    /\ inbox = <<>>

(***************************************************************************)
(* C24: sort_members_by_prefix returns the members of a channel ordered by *)
(* the index of their highest prefix in the prefix order of the server,    *)
(* the members without prefix last, and by lowercased nick among the       *)
(* members of equal highest prefix, whatever the order in which the        *)
(* prefixes of a member are stored.                                        *)
(***************************************************************************)
\* the index of the highest prefix of the member, past the last one for a
\* member without prefix
PrefixRank(member) ==
    IF PrefixRanks(member.prefixes) = {} THEN Len(member_prefixes) + 1
    ELSE CHOOSE i \in PrefixRanks(member.prefixes) :
            \A j \in PrefixRanks(member.prefixes) : i <= j

LoweredNick(member) == Lower(heap[member.user].source.nick)

\* ORDER BY prefix, nick
IsOrderedByPrefixThenNick(members) ==
    \A i \in 1..(Len(members) - 1) :
        \/ PrefixRank(members[i]) < PrefixRank(members[i + 1])
        \/ /\ PrefixRank(members[i]) = PrefixRank(members[i + 1])
           /\ ~StrLess(LoweredNick(members[i + 1]), LoweredNick(members[i]))

C24_SortedByPrefixThenNick ==
    \A i \in 1..Len(channels) :
        LET members == ODValues(channels[i][2].members)
        IN  /\ ~sort_members_by_prefix_raises(Self, members)
            /\ IsOrderedByPrefixThenNick(sort_members_by_prefix(Self, members))

\* what the sort does give: the members without prefix come last, ordered by
\* lowercased nick
C24_NoPrefixLast ==
    \A i \in 1..Len(channels) :
        LET members == ODValues(channels[i][2].members)
            sorted == sort_members_by_prefix(Self, members)
        IN  ~sort_members_by_prefix_raises(Self, members) =>
                \A j \in 1..(Len(sorted) - 1) :
                    sorted[j].prefixes = "" =>
                        /\ sorted[j + 1].prefixes = ""
                        /\ ~StrLess(LoweredNick(sorted[j + 1]), LoweredNick(sorted[j]))

\* the channel #a with the members z (+@), b (@), a (@), c (+) and w
C24_Reached ==
    /\ IsChannel("#a")
    /\ ODKeys(ODGet(channels, "#a").members) = <<"z", "b", "a", "c", "w">>
    /\ TheMember("#a", "z").prefixes = "+@"
    /\ ~sort_members_by_prefix_raises(Self, ODValues(ODGet(channels, "#a").members))

(***************************************************************************)
(* C27: a MODE for a channel that adds a mode letter which is not a member *)
(* prefix is idempotent: +letter leaves channel.modes unchanged when the   *)
(* letter is already in it and appends it once otherwise, -letter removes  *)
(* it; each such letter gives one ChannelModeEvent carrying the resulting  *)
(* modes, and channel.modes never holds a letter twice.                    *)
(***************************************************************************)
\* the step pushes a MODE of one sign and one letter for a known channel, the
\* letter being a channel mode of the server and not a member prefix, and the
\* client processes it
IsChannelModeChange ==
    /\ IsPushOfCommand({"MODE"})
    /\ Len(PushedMessage.params) >= 2
    /\ IsChannel(PushedMessage.params[1])
    /\ Len(PushedMessage.params[2]) = 2
    /\ SubSeq(PushedMessage.params[2], 1, 1) \in {"+", "-"}
    /\ SubSeq(PushedMessage.params[2], 2, 2) \in DOMAIN channel_modes
    /\ ~ODHas(member_prefixes, SubSeq(PushedMessage.params[2], 2, 2))
    /\ ~raised'

\* channel.modes after the change of old_modes
ModesAfter(old_modes, sign, letter) ==
    IF sign = "-" THEN Replace(old_modes, letter, "")
    ELSE IF Contains(old_modes, letter) THEN old_modes
    ELSE old_modes \o letter

HasNoDuplicate(modes) ==
    \A i, j \in 1..Len(modes) : SubSeq(modes, i, i) = SubSeq(modes, j, j) => i = j

C27_NoDuplicateMode ==
    \A i \in 1..Len(channels) : HasNoDuplicate(channels[i][2].modes)

C27_IdempotentAdd ==
    [][IsChannelModeChange =>
          LET target == PushedMessage.params[1]
              expected == ModesAfter(ODGet(channels, target).modes,
                                     SubSeq(PushedMessage.params[2], 1, 1),
                                     SubSeq(PushedMessage.params[2], 2, 2))
          IN  /\ ODHas(channels', target)
              /\ ODGet(channels', target).modes = expected
              /\ HasNoDuplicate(expected)
              /\ Len(NewEvents) = 1
              /\ NewEvents[1].type = "ChannelModeEvent"
              /\ NewEvents[1].channel = target
              /\ NewEvents[1].modes = expected]_vars

\* the same for the changes other than the addition of a letter already set
C27_FirstAddAndRemove ==
    [][(/\ IsChannelModeChange
        /\ ~(/\ SubSeq(PushedMessage.params[2], 1, 1) = "+"
             /\ Contains(ODGet(channels, PushedMessage.params[1]).modes,
                         SubSeq(PushedMessage.params[2], 2, 2)))) =>
          LET target == PushedMessage.params[1]
              expected == ModesAfter(ODGet(channels, target).modes,
                                     SubSeq(PushedMessage.params[2], 1, 1),
                                     SubSeq(PushedMessage.params[2], 2, 2))
          IN  /\ ODGet(channels', target).modes = expected
              /\ Len(NewEvents) = 1
              /\ NewEvents[1].type = "ChannelModeEvent"
              /\ NewEvents[1].modes = expected]_vars

\* the mode n of #a has been added twice
C27_Reached ==
    /\ Len(pushes) = 3
    /\ pushes[2] = ":s!u@h MODE #a +n\r\n"
    /\ pushes[3] = ":s!u@h MODE #a +n\r\n"
    /\ IsChannel("#a")
    /\ ~raised
    /\ Len(inbox) >= 2
    /\ inbox[Len(inbox)].type = "ChannelModeEvent"

(***************************************************************************)
(* C29: for a MODE whose target is a known user and not a channel, each    *)
(* +letter adds the letter to user.modes and each -letter removes it from  *)
(* user.modes; no argument is consumed and no event is emitted.            *)
(***************************************************************************)
IsUserModeChange ==
    /\ IsPushOfCommand({"MODE"})
    /\ Len(PushedMessage.params) >= 2
    /\ ~IsChannel(PushedMessage.params[1])
    /\ PushedMessage.params[1] \in DOMAIN users

LettersOf(modes) == {SubSeq(modes, i, i) : i \in 1..Len(modes)}

\* the letters set after the modestring has been applied to the letters, the
\* removals being applied when removes
RECURSIVE LettersAfter(_, _, _, _)
LettersAfter(letters, modestring, is_add, removes) ==
    IF modestring = "" THEN letters
    ELSE LET m == SubSeq(modestring, 1, 1)
         IN  IF m = "+" THEN LettersAfter(letters, Tail(modestring), TRUE, removes)
             ELSE IF m = "-" THEN LettersAfter(letters, Tail(modestring), FALSE, removes)
             ELSE IF is_add THEN LettersAfter(letters \cup {m}, Tail(modestring), is_add, removes)
             ELSE IF removes THEN LettersAfter(letters \ {m}, Tail(modestring), is_add, removes)
             ELSE LettersAfter(letters, Tail(modestring), is_add, removes)

UserModes(who) == heap[users[who]].modes

C29_UserModes ==
    [][IsUserModeChange =>
          /\ ~raised'
          /\ NewEvents = <<>>
          /\ PushedMessage.params[1] \in DOMAIN users'
          /\ LettersOf(heap'[users'[PushedMessage.params[1]]].modes)
                = LettersAfter(LettersOf(UserModes(PushedMessage.params[1])),
                               PushedMessage.params[2], TRUE, TRUE)]_vars

\* what the client does: the additions only
C29_UserModesAdded ==
    [][IsUserModeChange =>
          /\ ~raised'
          /\ NewEvents = <<>>
          /\ PushedMessage.params[1] \in DOMAIN users'
          /\ LettersOf(heap'[users'[PushedMessage.params[1]]].modes)
                = LettersAfter(LettersOf(UserModes(PushedMessage.params[1])),
                               PushedMessage.params[2], TRUE, FALSE)]_vars

\* the mode i of the user me has been added, then removed
C29_Reached ==
    /\ Len(pushes) = 3
    /\ pushes[2] = ":me!u@h MODE me +i\r\n"
    /\ pushes[3] = ":me!u@h MODE me -i\r\n"
    /\ "me" \in DOMAIN users
    /\ UserModes("me") = "i"

(***************************************************************************)
(* C30: _iter_modestring yields one (is_add, letter, arg) per mode letter  *)
(* in order, + and - setting the sign of the letters that follow. In the   *)
(* context of a channel it takes the arguments from left to right: one for *)
(* a member prefix letter, one for a letter of the CHANMODES category A or *)
(* B whether added or removed, one for a letter of the category C when     *)
(* added, none for the category D and none for a letter that is neither a  *)
(* member prefix nor a channel mode (its arg is null and there is no       *)
(* error). In the context of a user it takes no argument.                  *)
(***************************************************************************)
\* the modestrings of at most MaxModestringLen signs and letters: o and z for
\* the member prefixes, b, k, l, n for the four categories of channel modes
Modestrings == Words({"+", "-", "o", "b", "k", "l", "n", "z"}, MaxModestringLen)

\* as many arguments as a modestring can take
ModeArgs == [i \in 1..MaxModestringLen |-> SubSeq("xyzw", i, i) \o "1"]

\* the letter takes an argument
TakesArg(m, is_add, is_channel) ==
    /\ is_channel
    /\ \/ ODHas(member_prefixes, m)
       \/ /\ m \in DOMAIN channel_modes
          /\ \/ channel_modes[m] \in {"A", "B"}
             \/ channel_modes[m] = "C" /\ is_add

\* the items for the modestring
RECURSIVE ItemsOf(_, _, _, _)
ItemsOf(modestring, args, is_add, is_channel) ==
    IF modestring = "" THEN <<>>
    ELSE LET m == SubSeq(modestring, 1, 1)
         IN  IF m = "+" THEN ItemsOf(Tail(modestring), args, TRUE, is_channel)
             ELSE IF m = "-" THEN ItemsOf(Tail(modestring), args, FALSE, is_channel)
             ELSE IF TakesArg(m, is_add, is_channel)
             THEN <<ModeItem(is_add, m, Head(args))>>
                  \o ItemsOf(Tail(modestring), Tail(args), is_add, is_channel)
             ELSE <<ModeItem(is_add, m, None)>>
                  \o ItemsOf(Tail(modestring), args, is_add, is_channel)

IsKnownLetter(m) == m \in {"+", "-"} \/ ODHas(member_prefixes, m) \/ m \in DOMAIN channel_modes

C30_IterModestring ==
    \A modestring \in Modestrings : \A is_channel \in BOOLEAN :
        _iter_modestring(Self, modestring, ModeArgs, is_channel)
            = ItemsOf(modestring, ModeArgs, TRUE, is_channel)

\* the same for the modestrings of a channel made of member prefixes and
\* channel modes of the server only, and for every modestring of a user
C30_IterKnownLetters ==
    \A modestring \in Modestrings : \A is_channel \in BOOLEAN :
        (is_channel => \A i \in 1..Len(modestring) : IsKnownLetter(SubSeq(modestring, i, i)))
            => _iter_modestring(Self, modestring, ModeArgs, is_channel)
                  = ItemsOf(modestring, ModeArgs, TRUE, is_channel)

\* the server has announced its member prefixes and the four categories of
\* its channel modes, and z is none of them
C30_Reached ==
    /\ ODKeys(member_prefixes) = <<"o", "v">>
    /\ DOMAIN channel_modes = {"b", "k", "l", "n"}
    /\ channel_modes["b"] = "A" /\ channel_modes["k"] = "B"
    /\ channel_modes["l"] = "C" /\ channel_modes["n"] = "D"
    /\ _iter_modestring(Self, "+l-l", ModeArgs, TRUE)
          = <<ModeItem(TRUE, "l", "x1"), ModeItem(FALSE, "l", None)>>
    /\ _iter_modestring(Self, "+z", ModeArgs, TRUE) = <<ModeRaise>>

(***************************************************************************)
(* C31: a JOIN of the client itself for a channel it does not know creates *)
(* the channel and sends MODE <chan>, followed by WHO <chan> exactly when   *)
(* away-notify is among the capabilities; a JOIN of another user, or of    *)
(* the client for a channel it knows, sends nothing. In all cases the      *)
(* joiner is a member of the channel afterwards and exactly one            *)
(* ChannelJoinedEvent is emitted.                                          *)
(***************************************************************************)
IsJoinMessage == IsPushOfCommand({"JOIN"}) /\ Len(PushedMessage.params) >= 1

\* the JOIN of the step is the client's own for a channel it does not know
IsOwnNewJoin ==
    PushedMessage.source.nick = nick /\ ~IsChannel(PushedMessage.params[1])

\* the messages the JOIN of the step is to send: command and parameters
JoinLines ==
    IF ~IsOwnNewJoin THEN <<>>
    ELSE <<<<"MODE", <<PushedMessage.params[1]>>>>>>
         \o (IF "away-notify" \in DOMAIN capabilities
             THEN <<<<"WHO", <<PushedMessage.params[1]>>>>>>
             ELSE <<>>)

\* the command and the parameters of the lines the step sends
SentMessages ==
    [i \in 1..Len(NewOut) |->
        <<parse_message(SliceTo(NewOut[i], Len(NewOut[i]) - 2)).command,
          parse_message(SliceTo(NewOut[i], Len(NewOut[i]) - 2)).params>>]

JoinerIsMember ==
    /\ ~raised'
    /\ ODHas(channels', PushedMessage.params[1])
    /\ ODHas(ODGet(channels', PushedMessage.params[1]).members, PushedMessage.source.nick)
    /\ Len(NewEvents) = 1
    /\ NewEvents[1].type = "ChannelJoinedEvent"
    /\ NewEvents[1].channel = PushedMessage.params[1]

C31_Join == [][IsJoinMessage => (SentMessages = JoinLines /\ JoinerIsMember)]_vars

\* the same for the JOIN of the client and for the JOIN of another user to a
\* channel the client knows
C31_JoinOfKnownChannel ==
    [][(IsJoinMessage /\ (PushedMessage.source.nick = nick \/ IsChannel(PushedMessage.params[1])))
          => (SentMessages = JoinLines /\ JoinerIsMember)]_vars

\* with away-notify, the client has joined #a and asked for its modes and
\* its members
C31_Reached ==
    /\ "away-notify" \in DOMAIN capabilities
    /\ Len(pushes) >= 2
    /\ pushes[Len(pushes)] = ":me!u@h JOIN #a\r\n"
    /\ Len(outbox) >= 2
    /\ outbox[Len(outbox) - 1] = "MODE :#a\r\n"
    /\ outbox[Len(outbox)] = "WHO :#a\r\n"
    /\ IsMember("#a", "me")

(***************************************************************************)
(* C32: a 353 reply emits no event and adds its nicks to those accumulated *)
(* for its channel by the earlier 353 lines; the 366 for the channel       *)
(* replaces channel.members by one member per accumulated raw nick, its    *)
(* leading prefix symbols split off into prefixes, keyed by the bare nick, *)
(* in listing order; it emits one ChannelNamesEvent with the raw nicks and *)
(* empties the accumulation, so that a later listing for the channel       *)
(* starts from nothing.                                                    *)
(***************************************************************************)
\* the nicks accumulated for the channel
Accumulated(channel_name) ==
    IF channel_name \in DOMAIN tmp_channel_nicks THEN tmp_channel_nicks[channel_name]
    ELSE <<>>

PrefixSymbols == {member_prefixes[k][2] : k \in 1..Len(member_prefixes)}

\* the number of leading prefix symbols of the raw nick
RECURSIVE LeadingSymbols(_)
LeadingSymbols(raw) ==
    IF raw = "" \/ SubSeq(raw, 1, 1) \notin PrefixSymbols THEN 0
    ELSE 1 + LeadingSymbols(Tail(raw))

BareNick(raw) == SubSeq(raw, LeadingSymbols(raw) + 1, Len(raw))

IsNamesReply ==
    /\ IsPushOfCommand({"353"})
    /\ Len(PushedMessage.params) >= 4

\* the 353 of the step is accumulated
NamesAreAccumulated ==
    /\ ~raised'
    /\ NewEvents = <<>>
    /\ channels' = channels
    /\ PushedMessage.params[3] \in DOMAIN tmp_channel_nicks'
    /\ tmp_channel_nicks'[PushedMessage.params[3]]
          = Accumulated(PushedMessage.params[3]) \o Split(PushedMessage.params[4], " ")
    /\ \A k \in DOMAIN tmp_channel_nicks \ {PushedMessage.params[3]} :
          k \in DOMAIN tmp_channel_nicks' /\ tmp_channel_nicks'[k] = tmp_channel_nicks[k]

\* the 366 of the step ends a listing of a known channel
IsEndOfNames ==
    /\ IsPushOfCommand({"366"})
    /\ Len(PushedMessage.params) >= 2
    /\ PushedMessage.params[2] \in DOMAIN tmp_channel_nicks
    /\ IsChannel(PushedMessage.params[2])

\* the members of the channel are those of the raw nicks, in their order
MembersAreListed(members, raws) ==
    /\ Len(members) = Len(raws)
    /\ \A i \in 1..Len(raws) :
          /\ members[i][1] = BareNick(raws[i])
          /\ members[i][2].prefixes = SubSeq(raws[i], 1, LeadingSymbols(raws[i]))

NamesAreFlushed(raws) ==
    /\ ~raised'
    /\ PushedMessage.params[2] \notin DOMAIN tmp_channel_nicks'
    /\ Len(NewEvents) = 1
    /\ NewEvents[1].type = "ChannelNamesEvent"
    /\ NewEvents[1].channel = PushedMessage.params[2]
    /\ NewEvents[1].nicks = raws

RECURSIVE FirstOccurrences(_, _)
FirstOccurrences(nicks, seen) ==
    IF nicks = <<>> THEN <<>>
    ELSE IF Head(nicks) \in seen THEN FirstOccurrences(Tail(nicks), seen)
    ELSE <<Head(nicks)>> \o FirstOccurrences(Tail(nicks), seen \cup {Head(nicks)})

BareNicks(raws) == [i \in 1..Len(raws) |-> BareNick(raws[i])]

\* the last raw nick that lists the bare nick
LastListing(raws, bare) ==
    raws[CHOOSE i \in 1..Len(raws) :
            /\ BareNick(raws[i]) = bare
            /\ \A j \in (i + 1)..Len(raws) : BareNick(raws[j]) /= bare]

\* one member per bare nick, at the place of its first listing and with the
\* prefixes of its last listing
MembersAreListedOnce(members, raws) ==
    /\ ODKeys(members) = FirstOccurrences(BareNicks(raws), {})
    /\ \A i \in 1..Len(members) :
          members[i][2].prefixes
             = SubSeq(LastListing(raws, members[i][1]), 1,
                      LeadingSymbols(LastListing(raws, members[i][1])))

C32_TwoLines ==
    /\ Len(pushes) = 4
    /\ pushes[2] = ":srv 353 me = #a :@x +y\r\n"
    /\ pushes[3] = ":srv 353 me = #a :me z\r\n"
    /\ pushes[4] = ":srv 366 me #a :End of /NAMES list.\r\n"
    /\ ODKeys(ODGet(channels, "#a").members) = <<"x", "y", "me", "z">>
    /\ TheMember("#a", "x").prefixes = "@"
    /\ inbox[Len(inbox)].nicks = <<"@x", "+y", "me", "z">>

(***************************************************************************)
(* C33: a QUIT of the nick n removes n from the members of every channel   *)
(* it was in, sets the is_away of the user to false and emits exactly one  *)
(* QuitEvent per such channel, in the order of the channels, each preceded *)
(* by a ChannelTypingEvent if the member was typing there; the channels    *)
(* where n was not a member are untouched, the map of the channels keeps   *)
(* its keys, and a QUIT of a nick that is in no channel emits nothing.     *)
(***************************************************************************)
IsQuit == IsPushOfCommand({"QUIT"}) /\ Len(PushedMessage.params) >= 1

\* the type and the channel of the events of a QUIT of n, from the i-th
\* channel on
RECURSIVE QuitEvents(_, _)
QuitEvents(n, i) ==
    IF i > Len(channels) THEN <<>>
    ELSE (IF ~ODHas(channels[i][2].members, n) THEN <<>>
          ELSE IF ODGet(channels[i][2].members, n).is_typing
          THEN <<<<"ChannelTypingEvent", channels[i][1]>>, <<"QuitEvent", channels[i][1]>>>>
          ELSE <<<<"QuitEvent", channels[i][1]>>>>)
         \o QuitEvents(n, i + 1)

C33_QuitWhileAway ==
    /\ Len(pushes) = 3
    /\ pushes[2] = ":x!u@h AWAY :gone\r\n"
    /\ pushes[3] = ":x!u@h QUIT :bye\r\n"
    /\ inbox /= <<>>
    /\ inbox[Len(inbox)].type = "QuitEvent"
    /\ ~heap[users["x"]].is_away

(***************************************************************************)
(* C34: away events are emitted only on a change of the away state of the  *)
(* user. An AWAY with a message (or 306 for the client) when the user is   *)
(* not away sets is_away and emits one GoneAwayEvent per channel the user  *)
(* is a member of; an AWAY without parameter (or 305 for the client) when  *)
(* the user is away clears it and emits one BackFromAwayEvent per such     *)
(* channel; a repeated notification of the current state emits nothing and *)
(* changes nothing.                                                        *)
(***************************************************************************)
IsAwayNotification == IsPushOfCommand({"AWAY", "305", "306"})

\* the user the notification is about
AwayNick == IF PushedMessage.command = "AWAY" THEN PushedMessage.source.nick ELSE nick

\* the notification says that the user is away
SaysAway ==
    IF PushedMessage.command = "AWAY" THEN PushedMessage.params /= <<>>
    ELSE PushedMessage.command = "306"

\* the user is away before the step
WasAway == AwayNick \in DOMAIN users /\ heap[users[AwayNick]].is_away

\* the type and the channel of the away events, from the i-th channel on
RECURSIVE AwayEvents(_, _, _)
AwayEvents(n, type, i) ==
    IF i > Len(channels) THEN <<>>
    ELSE (IF ODHas(channels[i][2].members, n) THEN <<<<type, channels[i][1]>>>> ELSE <<>>)
         \o AwayEvents(n, type, i + 1)

C34_ClientBack ==
    /\ Len(pushes) = 3
    /\ pushes[2] = ":srv 306 me :You have been marked as being away\r\n"
    /\ pushes[3] = ":srv 305 me :You are no longer marked as being away\r\n"
    /\ ~heap[users["me"]].is_away
    /\ Len(inbox) >= 2
    /\ inbox[Len(inbox) - 1].type = "BackFromAwayEvent"
    /\ inbox[Len(inbox)].type = "BackFromAwayEvent"

(***************************************************************************)
(* C35: for a TAGMSG with +typing from a known member of a known channel,  *)
(* active sets is_typing = true and last_typing_update_at = now, paused    *)
(* and done set is_typing = false and last_typing_update_at = None, and    *)
(* exactly one ChannelTypingEvent is emitted if and only if is_typing      *)
(* changed (a repeated active while typing emits nothing); any other value *)
(* of +typing is ignored without error.                                    *)
(***************************************************************************)
IsTypingNotification ==
    /\ IsPushOfCommand({"TAGMSG"})
    /\ "+typing" \in DOMAIN PushedMessage.tags
    /\ Len(PushedMessage.params) >= 1
    /\ IsMember(PushedMessage.params[1], PushedMessage.source.nick)

\* the member after the notification of the status
MemberAfterStatus(member, status) ==
    IF status = "active"
    THEN [member EXCEPT !.is_typing = TRUE, !.last_typing_update_at = now]
    ELSE IF status \in {"paused", "done"}
    THEN [member EXCEPT !.is_typing = FALSE, !.last_typing_update_at = NoTime]
    ELSE member

\* the step does to the notifying member what the status says
AppliesStatus ==
    LET channel_name == PushedMessage.params[1]
        sender == PushedMessage.source.nick
        before == TheMember(channel_name, sender)
        after == MemberAfterStatus(before, PushedMessage.tags["+typing"])
    IN  /\ ~raised'
        /\ ODHas(channels', channel_name)
        /\ ODHas(ODGet(channels', channel_name).members, sender)
        /\ ODGet(ODGet(channels', channel_name).members, sender) = after
        /\ IF after.is_typing /= before.is_typing
           THEN /\ Len(NewEvents) = 1
                /\ NewEvents[1].type = "ChannelTypingEvent"
                /\ NewEvents[1].channel = channel_name
           ELSE NewEvents = <<>>

C35_TypingStatus == [][IsTypingNotification => AppliesStatus]_vars

\* the same for the three values of TypingStatus
C35_KnownTypingStatus ==
    [][(IsTypingNotification /\ PushedMessage.tags["+typing"] \in TypingStatus)
          => AppliesStatus]_vars

\* x is typing in #a since the second 1 and has notified it twice
C35_Reached ==
    /\ Len(pushes) = 3
    /\ pushes[2] = "@+typing=active :x!u@h TAGMSG #a\r\n"
    /\ pushes[3] = "@+typing=active :x!u@h TAGMSG #a\r\n"
    /\ IsMember("#a", "x")
    /\ TheMember("#a", "x").is_typing
    /\ TheMember("#a", "x").last_typing_update_at = 1
    /\ now = 1
    /\ Cardinality({i \in 1..Len(inbox) : inbox[i].type = "ChannelTypingEvent"}) = 1

(***************************************************************************)
(* C36: a PRIVMSG or NOTICE emits a NewMessageEvent first; if the sender   *)
(* is a member of the destination channel and was typing there, its typing *)
(* flag and timestamp are cleared and a ChannelTypingEvent for the channel *)
(* is emitted after the NewMessageEvent; otherwise no ChannelTypingEvent   *)
(* is emitted and the typing state of no member changes.                   *)
(***************************************************************************)
IsNewMessage ==
    /\ IsPushOfCommand({"PRIVMSG", "NOTICE"})
    /\ Len(PushedMessage.params) >= 2

\* the sender of the pushed message was typing in the channel
SenderWasTyping(channel_name) ==
    /\ IsMember(channel_name, PushedMessage.source.nick)
    /\ TheMember(channel_name, PushedMessage.source.nick).is_typing

\* the channels after the typing state of the member has been cleared
WithTypingCleared(channel_name, who) ==
    SetMember(Self, channel_name, who,
              [TheMember(channel_name, who) EXCEPT
                  !.is_typing = FALSE, !.last_typing_update_at = NoTime]).channels

DecodesTo(value) ==
    /\ ~raised'
    /\ Len(NewEvents) = 1
    /\ NewEvents[1].type = "Message"
    /\ NewEvents[1].command = "FOO"
    /\ DOMAIN NewEvents[1].tags = {"k"}
    /\ NewEvents[1].tags["k"] = value

C37_TagValueRoundTrip ==
    [][\A value \in TagValues : (IsPush /\ Pushed = TagLine(value)) => DecodesTo(value)]_vars

\* the same for the values without backslash
C37_TagValueWithoutBackslash ==
    [][\A value \in TagValues :
          (IsPush /\ Pushed = TagLine(value) /\ ~Contains(value, "\\")) => DecodesTo(value)]_vars

\* the value ; followed by a space and CR has been received escaped and
\* decoded
C37_Reached ==
    /\ pushes = <<"@k=\\:\\s\\r FOO\r\n">>
    /\ Len(inbox) = 1
    /\ inbox[1].tags["k"] = "; \r"

(***************************************************************************)
(* C38: no buffered message is lost: every message that was appended to    *)
(* an open batch id is dispatched exactly once, when BATCH -id is          *)
(* received, also when a second BATCH +id for the same id arrives while    *)
(* the batch is still open.  Refuted: BATCH +id assigns a new empty list   *)
(* to the id, so the messages buffered under an id that is opened again    *)
(* are dropped and never dispatched.                                       *)
(***************************************************************************)
\* the message m buffered under id is still buffered under id after the step
StaysBuffered(id, m) ==
    /\ id \in DOMAIN tmp_batches'
    /\ \E i \in 1..Len(tmp_batches'[id]) : tmp_batches'[id][i] = m

\* the step is the end of the batch id and dispatches its message m once
IsDispatchedOnce(id, m) ==
    /\ IsPushOfLine("BATCH -" \o id)
    /\ id \notin DOMAIN tmp_batches'
    /\ YieldsNewMessageEvent(m) =>
          Cardinality({j \in 1..Len(NewEvents) :
                          /\ NewEvents[j].type = "NewMessageEvent"
                          /\ NewEvents[j].origin = m.origin
                          /\ NewEvents[j].message = m.params[2]}) = 1
    /\ m.command = "PING" =>
          Len(NewOut) = Len(SelectSeq(tmp_batches[id], LAMBDA p : p.command = "PING"))

\* the step pushes BATCH +id for an id that is open and holds a message
ReopensBatch(id) ==
    /\ IsPushOfLine("BATCH +" \o id)
    /\ id \in DOMAIN tmp_batches
    /\ tmp_batches[id] /= <<>>

C38_NoBufferedMessageLost ==
    [][(IsPush /\ ~raised') =>
          \A id \in DOMAIN tmp_batches : \A i \in 1..Len(tmp_batches[id]) :
             StaysBuffered(id, tmp_batches[id][i])
                \/ IsDispatchedOnce(id, tmp_batches[id][i])]_vars

\* without a second BATCH +id for an open id no buffered message is lost
C38_LostOnlyByReopening ==
    [][(IsPush /\ ~raised' /\ ~ReopensBatch("1")) =>
          \A id \in DOMAIN tmp_batches : \A i \in 1..Len(tmp_batches[id]) :
             StaysBuffered(id, tmp_batches[id][i])
                \/ IsDispatchedOnce(id, tmp_batches[id][i])]_vars

\* a message was buffered, the batch was opened again and then closed:
\* the message gave no event
C38_Reached ==
    /\ pushes = <<"BATCH +1" \o CRLF,
                  "@batch=1 :a!u@h NOTICE #a :one" \o CRLF,
                  "BATCH +1" \o CRLF,
                  "BATCH -1" \o CRLF>>
    /\ inbox = <<>>
    /\ tmp_batches = EmptyDict
    /\ held = {2}

(***************************************************************************)
(* C39: in every reachable state the client's current nick is a key of     *)
(* the members of every channel in channels, after any sequence of JOIN,   *)
(* PART, KICK, QUIT, NICK and 353/366 messages.  Refuted: the 366 reply    *)
(* replaces the members of the channel by the nicks of the 353 replies,    *)
(* and a listing that does not name the client leaves the channel without  *)
(* the client among its members.                                           *)
(***************************************************************************)
C39_ClientIsMember ==
    \A channel_name \in KnownChannels : IsMember(channel_name, nick)

\* the step is the end of a names listing of a known channel
IsFlushOfNames ==
    /\ IsPushOfCommand({"366"})
    /\ Len(PushedMessage.params) >= 2
    /\ PushedMessage.params[2] \in KnownChannels

\* only the end of a names listing takes the client out of a channel it knows
C39_LeftOnlyByNamesListing ==
    [][(IsPush /\ ~raised' /\ ~IsFlushOfNames) =>
          \A channel_name \in KnownChannels :
             (IsMember(channel_name, nick) /\ ODHas(channels', channel_name))
                => ODHas(ODGet(channels', channel_name).members, nick')]_vars

\* the client joined #a and the listing of #a named x and y only
C39_Reached ==
    /\ Len(pushes) = 3
    /\ pushes[2] = ":srv 353 me = #a :@x +y\r\n"
    /\ pushes[3] = ":srv 366 me #a :End of /NAMES list.\r\n"
    /\ ~raised
    /\ nick = "me"
    /\ ODKeys(ODGet(channels, "#a").members) = <<"x", "y">>

(***************************************************************************)
(* C40: in every reachable state every member with is_typing = true has    *)
(* last_typing_update_at set (not None), so                                *)
(* should_send_active_typing_update never reaches its 'Inconsistent        *)
(* state' branch.                                                          *)
(***************************************************************************)
C40_TypingHasTime ==
    \A i \in 1..Len(channels) : \A j \in 1..Len(channels[i][2].members) :
       channels[i][2].members[j][2].is_typing
          => channels[i][2].members[j][2].last_typing_update_at /= NoTime

\* x is typing after its notification and the client after the host has
\* registered the notification it sent
C40_Reached ==
    /\ IsMember("#a", "x") /\ IsMember("#a", "me")
    /\ nick = "me"
    /\ TheMember("#a", "x").is_typing
    /\ TheMember("#a", "x").last_typing_update_at = now
    /\ TheMember("#a", "me").is_typing
    /\ TheMember("#a", "me").last_typing_update_at = now

====
